---- MODULE Spec2Model ----
(***************************************************************************)
(* A model of the sunsynk multi-inverter add-on:                           *)
(*   - the register codec of sunsynk/sensors.py (SpecDecode),              *)
(*   - the discovery-info update queue of ha_addon_sunsynk_multi/driver.py *)
(*     (SpecDisc),                                                         *)
(*   - the startup sequence main_loop of ha_addon_sunsynk_multi/__main__.py*)
(*     (Spec).                                                             *)
(* Each specification moves the variables of its own part and leaves the   *)
(* variables of the other parts at their initial values.                   *)
(***************************************************************************)
EXTENDS Integers, Sequences, FiniteSets, TLC

VARIABLES
    \* register codec: the sensor object, the registers given to reg_to_value,
    \* and what reg_to_value returned (or raised)
    sensor, regs, result,
    \* driver.py: the queue, the position of callback_discovery_info, the tick
    \* it was called with, and the entries queued since the last rebuild began
    HASS_DISCOVERY_INFO_UPDATE_QUEUE, disc_pc, now, queued_since_rebuild,
    \* __main__.py: the loaded options, the position of main_loop, the agents
    \* (STATE in the source), the registered callbacks, the web runner, the loop index,
    \* the inverters connected / discovered, the trace of logged and shutdown
    \* events, and the exit code
    OPT, WEB_GUI_ENABLED, pc, STATE_agents, CALLBACKS, runner, site_started, ist,
    connected, discovered, events, exit_code,
    \* web_gui/server.py: the options object the handlers change, the request
    \* whose handler is suspended in `await request.json()` (or the last one
    \* handled), and the response last sent
    _options, request, response,
    \* sensor_options.py: the sensor definitions and groups, the sensor options
    \* and the startup set, the calls of _add_sensor_with_deps in progress, the
    \* position of init_sensors, the generator it iterates, and the sensors a
    \* circular dependency was logged for
    DEFS_sensors, SENSOR_GROUPS, SOPT, startup, stack, sopt_pc, gen, warnings,
    \* options.py: the last call of ConnectorOptions(...) or load_dict and the
    \* exception it raised ("" for none)
    load_call, load_raised,
    \* the read planner: the tick's due sensors with the batch size and the
    \* allowed gap, the spans emitted, and the mapping of sensors to spans
    planner, spans, span_sensors,
    \* the report step: the sensor's schedule, current and last-published
    \* value, the publish events in flight, and what the agent did last
    reporter, publish_queue, report_did,
    \* driver.py: the connection init_driver built for the inverter, and the
    \* last read it performed
    suns, read_with,
    \* sensors.py: the load_limit the last update_dependencies call on the
    \* sensor saw, and the last call on the sensor
    dep_call,
    \* sensors.py: a set of Sensor objects such as SensorOption.affects, and
    \* the last membership test on it
    affects, probe,
    \* web_gui/server.py: a second options object that differs from _options
    \* in the MQTT password only, and the response the same request gets there
    twin, response_twin

codecVars == <<sensor, regs, result>>
discVars  == <<HASS_DISCOVERY_INFO_UPDATE_QUEUE, disc_pc, now, queued_since_rebuild>>
mainVars  == <<OPT, WEB_GUI_ENABLED, pc, STATE_agents, CALLBACKS, runner, site_started,
               ist, connected, discovered, events, exit_code>>
webVars   == <<_options, request, response, load_call, load_raised>>
sensVars  == <<DEFS_sensors, SENSOR_GROUPS, SOPT, startup, stack, sopt_pc, gen, warnings>>
planVars  == <<planner, spans, span_sensors>>
reportVars == <<reporter, publish_queue, report_did>>
connVars  == <<suns, read_with>>
eqVars    == <<affects, probe>>
twinVars  == <<twin, response_twin>>
vars == <<codecVars, discVars, mainVars, webVars, sensVars, planVars, reportVars, connVars,
          dep_call, eqVars, twinVars>>

\* what each part leaves alone
notDeps  == <<discVars, mainVars, webVars, sensVars, planVars, reportVars, connVars,
             eqVars, twinVars>>
notCodec == <<notDeps, dep_call>>
notDisc  == <<codecVars, mainVars, webVars, sensVars, planVars, reportVars, connVars, dep_call,
             eqVars, twinVars>>
notMain  == <<codecVars, discVars, webVars, sensVars, planVars, reportVars, connVars, dep_call,
             eqVars, twinVars>>
notWeb   == <<codecVars, discVars, mainVars, sensVars, load_call, load_raised, planVars, reportVars, connVars, dep_call,
             eqVars, twinVars>>
notLoad  == <<codecVars, discVars, mainVars, sensVars, planVars, reportVars, connVars, dep_call,
             eqVars, twinVars>>
notSens  == <<codecVars, discVars, mainVars, webVars, planVars, reportVars, connVars, dep_call,
             eqVars, twinVars>>
notPlan  == <<codecVars, discVars, mainVars, webVars, sensVars, reportVars, connVars, dep_call,
             eqVars, twinVars>>
notReport == <<codecVars, discVars, mainVars, webVars, sensVars, planVars, connVars, dep_call,
             eqVars, twinVars>>
notConn  == <<codecVars, discVars, mainVars, webVars, sensVars, planVars, reportVars, dep_call,
             eqVars, twinVars>>
notEq    == <<codecVars, discVars, mainVars, webVars, sensVars, planVars, reportVars, connVars,
             dep_call, twinVars>>
notConfig == <<codecVars, discVars, mainVars, load_call, load_raised, sensVars, planVars,
              reportVars, connVars, dep_call, eqVars>>

(***************************************************************************)
(* Bounds of the model.                                                    *)
(***************************************************************************)
\* longest register tuple handed to reg_to_value
MaxRegs == 3
\* longest address tuple of a Sensor / MathSensor
MaxAddr == 2
\* number of configured inverters
MaxInverters == 2

(***************************************************************************)
(* Numbers.  Python integers are unbounded and a two-register value needs  *)
(* 32 bits unsigned, so a number is kept as hi * 2^16 + lo with            *)
(* 0 <= lo < 2^16, over a denominator den (1 for an int, the factor's      *)
(* denominator for a float that is not integral).                          *)
(***************************************************************************)
W16 == 65536

Num(hi, lo, den) == [hi |-> hi, lo |-> lo, den |-> den]

FromInt(k) == Num(k \div W16, k % W16, 1)

IsNeg(v) == v.hi < 0

Neg(v) ==
    IF v.lo = 0 THEN Num(-v.hi, 0, v.den)
    ELSE Num(-v.hi - 1, W16 - v.lo, v.den)

Bit(w, b) == (w \div (2 ^ b)) % 2

RECURSIVE AndBits(_, _, _)
AndBits(a, m, b) ==
    IF b = 16 THEN 0
    ELSE Bit(a, b) * Bit(m, b) * (2 ^ b) + AndBits(a, m, b + 1)

\* r & bitmask on a 16-bit register
BitAnd(a, m) == AndBits(a, m, 0)

(***************************************************************************)
(* sunsynk.helpers: signed and int_round, as section 4.1 of the            *)
(* specification describes them.                                           *)
(***************************************************************************)
\* signed(val, bits): two's complement over `bits` bits, bits = 16 * len(regs).
\* val is at most 2^32 - 1, so for bits >= 48 the sign bit is never set.
signed(v, bits) ==
    IF bits = 16 THEN
        IF v.hi > 0 \/ v.lo >= 32768 THEN Num(v.hi - 1, v.lo, v.den) ELSE v
    ELSE IF bits = 32 THEN
        IF v.hi >= 32768 THEN Num(v.hi - W16, v.lo, v.den) ELSE v
    ELSE v

\* signed(i) with the default bits = 16, on a plain integer
signed16(i) == IF i >= 32768 THEN i - W16 ELSE i

\* int_round(val * abs(factor)) with abs(factor) = 1 / den: an int when the
\* quotient is integral, the float otherwise
int_round(v, den) ==
    LET r   == v.hi % den
        low == r * W16 + v.lo
    IN  IF low % den = 0
        THEN Num(v.hi \div den, low \div den, 1)
        ELSE Num(v.hi, v.lo, den)

(***************************************************************************)
(* Results of reg_to_value.                                                *)
(***************************************************************************)
Pending == [kind |-> "pending", hi |-> 0, lo |-> 0, den |-> 1, text |-> ""]

NumResult(v) == [kind |-> "num", hi |-> v.hi, lo |-> v.lo, den |-> v.den, text |-> ""]

TextResult(s) == [kind |-> "text", hi |-> 0, lo |-> 0, den |-> 1, text |-> s]

None == [kind |-> "none", hi |-> 0, lo |-> 0, den |-> 1, text |-> ""]

Raised(e) == [kind |-> "raise", hi |-> 0, lo |-> 0, den |-> 1, text |-> e]

(***************************************************************************)
(* Sensor objects.  factor is sign / den (1, -1, -0.1, ...); load_limit is *)
(* the set holding _load_limit, empty for None; options is the label map   *)
(* of an EnumSensor; factors the weights of a MathSensor.                  *)
(***************************************************************************)
SensorObj(class, naddr, factor, bitmask, absolute, zea, ll, factors, no_negative, options) ==
    [class |-> class, naddr |-> naddr, factor |-> factor, bitmask |-> bitmask,
     absolute |-> absolute, zero_export_absolute |-> zea, load_limit |-> ll,
     factors |-> factors, no_negative |-> no_negative, options |-> options]

\* Sensor.masked
masked(s, r) ==
    IF s.bitmask # 0
    THEN [i \in 1..Len(r) |-> BitAnd(r[i], s.bitmask)]
    ELSE r

\* a plausible slip: the high word first
Sensor_reg_to_value_bigendian(s, r) ==
    LET m == masked(s, r) IN
    IF Len(m) = 0 THEN Raised("IndexError")
    ELSE
        LET val0 == Num(m[1], IF Len(m) > 1 THEN m[2] ELSE 0, 1)
            val1 == IF s.factor.neg THEN signed(val0, 16 * Len(m)) ELSE val0
            val2 == int_round(val1, s.factor.den)
            val3 == IF s.absolute /\ IsNeg(val2) THEN Neg(val2) ELSE val2
            val4 == IF s.zero_export_absolute /\ s.load_limit = {2} /\ IsNeg(val3)
                    THEN Neg(val3) ELSE val3
        IN  NumResult(val4)

\* a plausible slip: the sign of the factor ignored (no signed decode)
Sensor_reg_to_value_unsigned(s, r) ==
    LET m == masked(s, r) IN
    IF Len(m) = 0 THEN Raised("IndexError")
    ELSE
        LET val0 == Num(IF Len(m) > 1 THEN m[2] ELSE 0, m[1], 1)
            val2 == int_round(val0, s.factor.den)
        IN  NumResult(val2)

\* Sensor.reg_to_value
Sensor_reg_to_value(s, r) ==
    LET m == masked(s, r) IN
    IF Len(m) = 0 THEN Raised("IndexError")
    ELSE
        LET val0 == Num(IF Len(m) > 1 THEN m[2] ELSE 0, m[1], 1)
            val1 == IF s.factor.neg THEN signed(val0, 16 * Len(m)) ELSE val0
            val2 == int_round(val1, s.factor.den)
            val3 == IF s.absolute /\ IsNeg(val2) THEN Neg(val2) ELSE val2
            val4 == IF s.zero_export_absolute /\ s.load_limit = {2} /\ IsNeg(val3)
                    THEN Neg(val3) ELSE val3
        IN  NumResult(val4)

Min(a, b) == IF a < b THEN a ELSE b

RECURSIVE SumZip(_, _, _)
\* sum(signed(i) * s for i, s in zip(regs, factors)), from position k on
SumZip(r, f, k) ==
    IF k > Min(Len(r), Len(f)) THEN 0
    ELSE signed16(r[k]) * f[k] + SumZip(r, f, k + 1)

\* MathSensor.reg_to_value
MathSensor_reg_to_value(s, r) ==
    LET val0 == SumZip(r, s.factors, 1)
        val1 == IF s.absolute /\ val0 < 0 THEN -val0 ELSE val0
        val2 == IF s.no_negative /\ val1 < 0 THEN 0 ELSE val1
    IN  NumResult(FromInt(val2))

\* dict.get(key) of a label map: the label, or None
Get(map, key) == IF key \in DOMAIN map THEN TextResult(map[key]) ELSE None

\* `x or "unknown <n>"`: None and the empty string are falsy
OrUnknown(x, n) ==
    IF x.kind = "none" \/ x.text = ""
    THEN TextResult("unknown " \o ToString(n))
    ELSE x

SDStatusLabels == 1000 :> "fault" @@ 2000 :> "ok"

\* SDStatusSensor.reg_to_value
SDStatusSensor_reg_to_value(s, r) ==
    IF Len(r) = 0 THEN Raised("IndexError")
    ELSE OrUnknown(Get(SDStatusLabels, r[1]), r[1])

InverterStateLabels ==
    0 :> "standby" @@ 1 :> "selfcheck" @@ 2 :> "ok" @@ 3 :> "alarm" @@
    4 :> "fault" @@ 5 :> "activating"

\* InverterStateSensor.reg_to_value
InverterStateSensor_reg_to_value(s, r) ==
    IF Len(r) = 0 THEN Raised("IndexError")
    ELSE OrUnknown(Get(InverterStateLabels, r[1]), r[1])

\* a plausible slip: an unknown value reported as the string 'unknown <n>'
EnumSensor_reg_to_value_unknown(s, r) ==
    LET regsm == masked(s, r) IN
    IF Len(regsm) = 0 THEN Raised("IndexError")
    ELSE OrUnknown(Get(s.options, regsm[1]), regsm[1])

\* EnumSensor.reg_to_value: an unknown value is logged and None is returned
EnumSensor_reg_to_value(s, r) ==
    LET regsm == masked(s, r) IN
    IF Len(regsm) = 0 THEN Raised("IndexError")
    ELSE Get(s.options, regsm[1])

\* the fault table of FaultSensor
FaultSensor_faults ==
    13 :> "Working mode change" @@
    18 :> "AC over current" @@
    20 :> "DC over current" @@
    23 :> "F23 AC leak current or transient over current" @@
    24 :> "F24 DC insulation impedance" @@
    26 :> "F26 DC busbar imbalanced" @@
    29 :> "Parallel comms cable" @@
    35 :> "No AC grid" @@
    42 :> "AC line low voltage" @@
    47 :> "AC freq high/low" @@
    56 :> "DC busbar voltage low" @@
    63 :> "ARC fault" @@
    64 :> "Heat sink tempfailure"

\* the fault table of HVFaultSensor (the source's U+FFFD is written ?)
HVFaultSensor_faults ==
    1 :> "DC Inversed Failure" @@
    2 :> "DC insula?on impedance permanent fault" @@
    3 :> "DC leakage current fault" @@
    4 :> "Ground fault GFDI" @@
    5 :> "Read the memory error" @@
    6 :> "Write the memory error" @@
    7 :> "DC START Failure" @@
    8 :> "GFDI grounding touch failure" @@
    9 :> "IGBT damaged by excessive drop voltage" @@
    10 :> "Auxiliary power supply failure" @@
    11 :> "AC main contactor errors" @@
    12 :> "AC auxiliary contactor errors" @@
    13 :> "Working mode change" @@
    14 :> "DC over current SW Failure" @@
    15 :> "AC over current SW Failure" @@
    16 :> "DC Ground Leakage current fault" @@
    18 :> "AC over current TZ" @@
    19 :> "All hardware failure synthesis" @@
    20 :> "DC over current" @@
    21 :> "DC HV Bus over current" @@
    22 :> "Remote Emergency stop" @@
    23 :> "AC leakage current is transient over current" @@
    24 :> "DC insulation impedance" @@
    25 :> "DC feedback fault" @@
    26 :> "DC busbar imbalanced" @@
    27 :> "DC end insula?on error" @@
    28 :> "Inverter 1 DC high fault" @@
    29 :> "Parallel comms cable/AC load switch failure" @@
    30 :> "AC main contactor failure" @@
    31 :> "Relay open circuit fault" @@
    32 :> "Inverter 2 dc high fault" @@
    33 :> "AC Overcurrent" @@
    34 :> "AC Overload (backup)" @@
    35 :> "No AC grid" @@
    36 :> "AC grid phase error" @@
    37 :> "AC three-phase voltage unbalance failure" @@
    38 :> "AC three-phase current unbalance failure" @@
    39 :> "AC over current (one cycle)" @@
    40 :> "DC over current" @@
    41 :> "Parallel system stopped" @@
    42 :> "AC line low voltage" @@
    43 :> "AC Line V,W over voltage" @@
    44 :> "AC Line V,W low voltage" @@
    45 :> "AC Line U,V over voltage" @@
    46 :> "Battery 1 fault" @@
    47 :> "AC grid freq too high" @@
    48 :> "AC grid freq too low" @@
    49 :> "Battery 2 fault" @@
    50 :> "V phase grid current DC component over current" @@
    51 :> "W phase grid current DC component over current" @@
    52 :> "DC voltage too high" @@
    53 :> "DC voltage too low" @@
    54 :> "battery 1 voltage high" @@
    55 :> "battery 2 voltage high" @@
    56 :> "battery 1 voltage low" @@
    57 :> "battery 2 voltage low" @@
    58 :> "bms communication lost" @@
    59 :> "AC grid V over current" @@
    60 :> "AC grid W over current" @@
    61 :> "Reactor A phase over current" @@
    62 :> "DRM stop activated" @@
    63 :> "ARC fault" @@
    64 :> "Heat sink tempfailure"

\* f"{n:02}"
Fmt02(n) == IF n < 10 THEN "0" \o ToString(n) ELSE ToString(n)

\* (f"F{n:02} " + desc).strip(): the table's descriptions have no outer blanks
FaultMsg(n, desc) ==
    IF desc = "" THEN "F" \o Fmt02(n) ELSE "F" \o Fmt02(n) \o " " \o desc

\* faults.get(key, "")
GetOr(map, key) == IF key \in DOMAIN map THEN map[key] ELSE ""

\* ", ".join(err)
RECURSIVE Join(_)
Join(err) ==
    IF Len(err) = 0 THEN ""
    ELSE IF Len(err) = 1 THEN err[1]
    ELSE err[1] \o ", " \o Join(Tail(err))

RECURSIVE FaultLoop(_, _, _, _)
\* the loops over the words (w, 1-based) and the bits of each word; off = 16 * (w - 1)
FaultLoop(r, faults, w, bit) ==
    IF w > Len(r) THEN <<>>
    ELSE IF bit = 16 THEN FaultLoop(r, faults, w + 1, 0)
    ELSE
        LET off == 16 * (w - 1)
            msk == 2 ^ bit
        IN  IF Bit(r[w], bit) = 1
            THEN <<FaultMsg(bit + off + 1, GetOr(faults, off + msk))>>
                 \o FaultLoop(r, faults, w, bit + 1)
            ELSE FaultLoop(r, faults, w, bit + 1)

\* FaultSensor.reg_to_value
FaultSensor_reg_to_value(s, r) ==
    TextResult(Join(FaultLoop(r, FaultSensor_faults, 1, 0)))

\* HVFaultSensor.reg_to_value
HVFaultSensor_reg_to_value(s, r) ==
    TextResult(Join(FaultLoop(r, HVFaultSensor_faults, 1, 0)))

(***************************************************************************)
(* The register codec as a state machine: a sensor object and a register   *)
(* tuple are drawn, then the sensor's reg_to_value is applied.             *)
(***************************************************************************)
SeqsUpTo(S, n) == UNION {[1..k -> S] : k \in 0..n}

NoOptions == <<>>

Factors == {[neg |-> TRUE, den |-> 1], [neg |-> TRUE, den |-> 10], [neg |-> FALSE, den |-> 1]}

Bitmasks == {0, 255, 32768}

\* (zero_export_absolute, _load_limit)
ZeroExport == {<<FALSE, {}>>, <<TRUE, {}>>, <<TRUE, {1}>>, <<TRUE, {2}>>}

ScalarSensors ==
    {SensorObj("Sensor", n, f, bm, ab, ze[1], ze[2], <<>>, FALSE, NoOptions) :
        n \in 1..MaxAddr, f \in Factors, bm \in Bitmasks, ab \in BOOLEAN, ze \in ZeroExport}

MathSensors ==
    UNION {{SensorObj("MathSensor", n, [neg |-> FALSE, den |-> 1], 0, ab, FALSE, {}, fs, nn, NoOptions) :
                fs \in [1..n -> {1, -1}], ab \in BOOLEAN, nn \in BOOLEAN} : n \in 1..MaxAddr}

EnumOptions == {0 :> "off" @@ 1 :> "on", 1 :> "grid" @@ 2 :> "battery" @@ 4 :> ""}

EnumSensors ==
    {SensorObj("EnumSensor", 1, [neg |-> FALSE, den |-> 1], bm, FALSE, FALSE, {}, <<>>, FALSE, o) :
        bm \in {0, 3}, o \in EnumOptions}

TextSensor(class, n) ==
    SensorObj(class, n, [neg |-> FALSE, den |-> 1], 0, FALSE, FALSE, {}, <<>>, FALSE, NoOptions)

SensorInputs ==
    ScalarSensors \cup MathSensors \cup EnumSensors
    \cup {TextSensor("SDStatusSensor", 1), TextSensor("InverterStateSensor", 1)}
    \cup {TextSensor(c, n) : c \in {"FaultSensor", "HVFaultSensor"}, n \in 1..MaxRegs}

\* the register words tried for each class
Words(class) ==
    CASE class = "Sensor" -> {0, 1, 2, 32768, 65534}
      [] class = "MathSensor" -> {0, 1, 32768, 65535}
      [] class = "EnumSensor" -> {0, 1, 2, 4, 7}
      [] class = "SDStatusSensor" -> {0, 1000, 2000, 3000}
      [] class = "InverterStateSensor" -> {0, 1, 2, 3, 4, 5, 6}
      [] OTHER -> {0, 1, 2, 4, 4096, 32768}

RegInputs(s) == SeqsUpTo(Words(s.class), MaxRegs)

CodecIdle ==
    /\ sensor = TextSensor("SDStatusSensor", 1)
    /\ regs = <<>>
    /\ result = Pending

InitCodec ==
    /\ sensor \in SensorInputs
    /\ regs \in RegInputs(sensor)
    /\ result = Pending

\* Sensor.reg_to_value(regs) is called on the sensor
DecodeSensor ==
    /\ sensor.class = "Sensor"
    /\ result = Pending
    /\ result' = Sensor_reg_to_value(sensor, regs)
    /\ UNCHANGED <<sensor, regs, notCodec>>

\* MathSensor.reg_to_value(regs) is called on the sensor
DecodeMathSensor ==
    /\ sensor.class = "MathSensor"
    /\ result = Pending
    /\ result' = MathSensor_reg_to_value(sensor, regs)
    /\ UNCHANGED <<sensor, regs, notCodec>>

\* EnumSensor.reg_to_value(regs) is called on the sensor
DecodeEnumSensor ==
    /\ sensor.class = "EnumSensor"
    /\ result = Pending
    /\ result' = EnumSensor_reg_to_value(sensor, regs)
    /\ UNCHANGED <<sensor, regs, notCodec>>

\* SDStatusSensor.reg_to_value(regs) is called on the sensor
DecodeSDStatusSensor ==
    /\ sensor.class = "SDStatusSensor"
    /\ result = Pending
    /\ result' = SDStatusSensor_reg_to_value(sensor, regs)
    /\ UNCHANGED <<sensor, regs, notCodec>>

\* InverterStateSensor.reg_to_value(regs) is called on the sensor
DecodeInverterStateSensor ==
    /\ sensor.class = "InverterStateSensor"
    /\ result = Pending
    /\ result' = InverterStateSensor_reg_to_value(sensor, regs)
    /\ UNCHANGED <<sensor, regs, notCodec>>

\* FaultSensor.reg_to_value(regs) is called on the sensor
DecodeFaultSensor ==
    /\ sensor.class = "FaultSensor"
    /\ result = Pending
    /\ result' = FaultSensor_reg_to_value(sensor, regs)
    /\ UNCHANGED <<sensor, regs, notCodec>>

\* HVFaultSensor.reg_to_value(regs) is called on the sensor
DecodeHVFaultSensor ==
    /\ sensor.class = "HVFaultSensor"
    /\ result = Pending
    /\ result' = HVFaultSensor_reg_to_value(sensor, regs)
    /\ UNCHANGED <<sensor, regs, notCodec>>

NextCodec ==
    \/ DecodeSensor
    \/ DecodeMathSensor
    \/ DecodeEnumSensor
    \/ DecodeSDStatusSensor
    \/ DecodeInverterStateSensor
    \/ DecodeFaultSensor
    \/ DecodeHVFaultSensor

(***************************************************************************)
(* driver.py: the discovery-info update queue.  sensor_on_update is the    *)
(* onchange hook of every inverter's state and runs inside the inverter    *)
(* read tasks; callback_discovery_info is the timer callback registered    *)
(* with every = 5, and it suspends at its awaits, where other tasks run.   *)
(***************************************************************************)
\* SOPT after init_sensors: the sensors with an entry, and what each affects
SOPT_affects ==
    "rated_power" :> {"prog1_power", "prog1_charge"} @@
    "load_limit"  :> {"prog1_power", "export_limit_power"} @@
    "battery_soc" :> {}

\* the sensors whose value an inverter reports (grid_power has no entry in SOPT)
UpdatedSensors == {"rated_power", "load_limit", "battery_soc", "grid_power"}

\* the period of callback_discovery_info, and of the statistics it publishes
DiscoveryEvery == 5

StatsEvery == 120

DiscIdle ==
    /\ HASS_DISCOVERY_INFO_UPDATE_QUEUE = {}
    /\ disc_pc = "idle"
    /\ now = 0
    /\ queued_since_rebuild = {}

InitDisc == DiscIdle

\* SOPT[sen].affects, empty also when sen has no entry in SOPT
Affects(sen) == IF sen \in DOMAIN SOPT_affects THEN SOPT_affects[sen] ELSE {}

\* sensor_on_update(sen, _new, _old)
sensor_on_update(sen) ==
    /\ IF sen \notin DOMAIN SOPT_affects \/ Affects(sen) = {}
       THEN UNCHANGED <<HASS_DISCOVERY_INFO_UPDATE_QUEUE, queued_since_rebuild>>
       ELSE /\ HASS_DISCOVERY_INFO_UPDATE_QUEUE' =
                    HASS_DISCOVERY_INFO_UPDATE_QUEUE \cup Affects(sen)
            /\ queued_since_rebuild' = queued_since_rebuild \cup Affects(sen)
    /\ UNCHANGED <<disc_pc, now, notDisc>>

SensorUpdate == \E sen \in UpdatedSensors : sensor_on_update(sen)

\* where callback_discovery_info goes after the flush: the statistics, when due
AfterFlush == IF now % StatsEvery = 0 THEN "publish_stats" ELSE "return"

\* callback_discovery_info(now) up to its first await: with entries queued,
\* every agent rebuilds its discovery info and the publish is awaited
callback_discovery_info ==
    /\ disc_pc = "idle"
    /\ IF HASS_DISCOVERY_INFO_UPDATE_QUEUE # {}
       THEN /\ disc_pc' = "publish_discovery_info"
            /\ queued_since_rebuild' = {}
       ELSE /\ disc_pc' = AfterFlush
            /\ UNCHANGED queued_since_rebuild
    /\ UNCHANGED <<HASS_DISCOVERY_INFO_UPDATE_QUEUE, now, notDisc>>

\* MQTT.publish_discovery_info() returns: the queue is cleared
PublishDone ==
    /\ disc_pc = "publish_discovery_info"
    /\ HASS_DISCOVERY_INFO_UPDATE_QUEUE' = {}
    /\ disc_pc' = AfterFlush
    /\ UNCHANGED <<now, queued_since_rebuild, notDisc>>

\* the awaits of ist.publish_stats(120), for every agent
PublishStats ==
    /\ disc_pc = "publish_stats"
    /\ disc_pc' = "return"
    /\ UNCHANGED <<HASS_DISCOVERY_INFO_UPDATE_QUEUE, now, queued_since_rebuild, notDisc>>

\* the callback returns; the timer calls it again DiscoveryEvery seconds later
\* (the tick is kept modulo StatsEvery, all the callback reads of it)
Return ==
    /\ disc_pc = "return"
    /\ disc_pc' = "idle"
    /\ now' = (now + DiscoveryEvery) % StatsEvery
    /\ UNCHANGED <<HASS_DISCOVERY_INFO_UPDATE_QUEUE, queued_since_rebuild, notDisc>>

NextDisc ==
    \/ SensorUpdate
    \/ callback_discovery_info
    \/ PublishDone
    \/ PublishStats
    \/ Return

(***************************************************************************)
(* __main__.py: main_loop, from the return of OPT.init_addon() to its end. *)
(***************************************************************************)
ValidDrivers == {"pymodbus", "umodbus", "solarman"}

Drivers == {"pymodbus", "solarman", "modbus"}

\* an inverter: its ha_prefix and its connector name ("" = a direct port)
InverterOpts == [ha_prefix : {"ss1", "ss2"}, connector : {"", "c1", "c2"}]

\* the names of the configured connectors
ConnectorLists == {<<>>, <<"c1">>, <<"c1", "c2">>, <<"c1", "c1">>}

Options ==
    [driver : Drivers,
     inverters : UNION {[1..n -> InverterOpts] : n \in 1..MaxInverters},
     connectors : ConnectorLists]

Range(f) == {f[i] : i \in DOMAIN f}

\* options.py init_options, the checks after init_addon: the error it raises
init_options(opt) ==
    IF \E i, j \in DOMAIN opt.inverters :
            i < j /\ opt.inverters[i].ha_prefix = opt.inverters[j].ha_prefix
    THEN "ValueError: HA_PREFIX should be unique"
    ELSE IF \E i, j \in DOMAIN opt.connectors : i < j /\ opt.connectors[i] = opt.connectors[j]
    THEN "ValueError: Connector name should be unique"
    ELSE IF \E i \in DOMAIN opt.inverters :
            /\ opt.inverters[i].connector # ""
            /\ opt.inverters[i].connector \notin Range(opt.connectors)
    THEN "ValueError: references unknown connector"
    ELSE "ok"

\* ConnectorManager.get_connector(name), as section 7 of the specification
\* describes it: an unknown connector name is a configuration error
get_connector(opt, name) ==
    IF name \in Range(opt.connectors) THEN "ok" ELSE "ValueError"

\* a plausible slip: the final `else: raise ValueError` missing
create_legacy_connection_any_driver(opt, inv) == "ok"

\* driver.py _create_legacy_connection(inv, opt)
create_legacy_connection(opt, inv) ==
    IF opt.driver \in ValidDrivers THEN "ok" ELSE "ValueError"

RECURSIVE init_driver_loop(_, _, _)
\* driver.py init_driver, the loop from inverter idx on: the agents appended
\* to STATE and the exception that ended the loop, if any
init_driver_loop(opt, idx, agents) ==
    IF idx > Len(opt.inverters) THEN [agents |-> agents, error |-> "ok"]
    ELSE
        LET inv == opt.inverters[idx]
            got == IF inv.connector # ""
                   THEN get_connector(opt, inv.connector)
                   ELSE create_legacy_connection(opt, inv)
        IN  IF got = "ok"
            THEN init_driver_loop(opt, idx + 1,
                                  Append(agents, [index |-> idx, opt |-> inv]))
            ELSE [agents |-> agents, error |-> got]

\* driver.py init_driver(opt): STATE.clear(), then the loop
init_driver(opt) == init_driver_loop(opt, 1, <<>>)

MainIdle ==
    /\ OPT = [driver |-> "pymodbus",
              inverters |-> <<[ha_prefix |-> "ss1", connector |-> ""]>>,
              connectors |-> <<>>]
    /\ WEB_GUI_ENABLED = TRUE
    /\ pc = "not_started"
    /\ STATE_agents = <<>>
    /\ CALLBACKS = <<>>
    /\ runner = FALSE
    /\ site_started = FALSE
    /\ ist = 1
    /\ connected = {}
    /\ discovered = {}
    /\ events = <<>>
    /\ exit_code = {}

\* main_loop while it awaits run_callbacks, with one inverter running
MainRunning ==
    /\ OPT = [driver |-> "pymodbus",
              inverters |-> <<[ha_prefix |-> "ss1", connector |-> ""]>>,
              connectors |-> <<>>]
    /\ WEB_GUI_ENABLED = TRUE
    /\ pc = "run_callbacks"
    /\ STATE_agents = <<[index |-> 1, opt |-> [ha_prefix |-> "ss1", connector |-> ""]]>>
    /\ CALLBACKS = <<[name |-> "discovery_info", index |-> 0],
                     [name |-> "ist.cb", index |-> 1],
                     [name |-> "log_errors", index |-> 0]>>
    /\ runner = TRUE
    /\ site_started = TRUE
    /\ ist = 2
    /\ connected = {1}
    /\ discovered = {1}
    /\ events = <<"web_started", "run_callbacks">>
    /\ exit_code = {}

\* main_loop at line 70, about to call SOPT.init_sensors()
MainAtInitSensors ==
    /\ OPT = [driver |-> "pymodbus",
              inverters |-> <<[ha_prefix |-> "ss1", connector |-> ""]>>,
              connectors |-> <<>>]
    /\ WEB_GUI_ENABLED = TRUE
    /\ pc = "init_sensors"
    /\ STATE_agents = <<[index |-> 1, opt |-> [ha_prefix |-> "ss1", connector |-> ""]]>>
    /\ CALLBACKS = <<>>
    /\ runner = TRUE
    /\ site_started = TRUE
    /\ ist = 1
    /\ connected = {}
    /\ discovered = {}
    /\ events = <<"web_started">>
    /\ exit_code = {}

\* main_loop after `await OPT.init_addon()` has loaded the options
InitMain ==
    /\ OPT \in Options
    /\ WEB_GUI_ENABLED \in BOOLEAN
    /\ pc = "start_web_server"
    /\ STATE_agents = <<>>
    /\ CALLBACKS = <<>>
    /\ runner = FALSE
    /\ site_started = FALSE
    /\ ist = 1
    /\ connected = {}
    /\ discovered = {}
    /\ events = <<>>
    /\ exit_code = {}

Log(e) == events' = Append(events, e)

\* lines 44-50 and server.py start_web_server: the server starts, or an
\* exception (before or after _runner is set) is caught and logged
StartWebServer ==
    /\ pc = "start_web_server"
    /\ pc' = "init_driver"
    /\ IF WEB_GUI_ENABLED
       THEN \E outcome \in {"started", "create_app raises", "setup or start raises"} :
                /\ runner' = (outcome # "create_app raises")
                /\ site_started' = (outcome = "started")
                /\ Log(IF outcome = "started" THEN "web_started"
                       ELSE "warning: failed to start web gui")
       ELSE UNCHANGED <<runner, site_started, events>>
    /\ UNCHANGED <<OPT, WEB_GUI_ENABLED, STATE_agents, CALLBACKS, ist, connected,
                   discovered, exit_code, notMain>>

\* lines 64-68: init_driver; TypeError and ValueError end main_loop with 1
InitDriver ==
    /\ pc = "init_driver"
    /\ LET got == init_driver(OPT) IN
        /\ STATE_agents' = got.agents
        /\ IF got.error = "ok"
           THEN /\ pc' = "init_sensors"
                /\ UNCHANGED <<events, exit_code>>
           ELSE /\ pc' = "done"
                /\ Log("critical: init_driver")
                /\ exit_code' = {1}
    /\ UNCHANGED <<OPT, WEB_GUI_ENABLED, CALLBACKS, runner, site_started, ist,
                   connected, discovered, notMain>>

\* lines 69-81: the schedules and sensors are initialised and the
\* discovery_info callback is registered
InitSensors ==
    /\ pc = "init_sensors"
    /\ pc' = "connect"
    /\ ist' = 1
    /\ CALLBACKS' = Append(CALLBACKS, [name |-> "discovery_info", index |-> 0])
    /\ UNCHANGED <<OPT, WEB_GUI_ENABLED, STATE_agents, runner, site_started,
                   connected, discovered, events, exit_code, notMain>>

\* lines 102-108: the handler of ConnectionError and ValueError
ConnectionFailed ==
    /\ events' = events \o <<"log_bold", "critical: terminate in 30 seconds">>
    /\ exit_code' = {2}
    /\ pc' = "done"

\* a plausible slip: a failed connect moves on to the next inverter
Connect_skips_failed ==
    /\ pc = "connect"
    /\ ist <= Len(STATE_agents)
    /\ \E outcome \in {"ok", "ConnectionError", "ValueError"} :
        IF outcome = "ok"
        THEN /\ connected' = connected \cup {ist}
             /\ pc' = "hass_discover_sensors"
             /\ UNCHANGED <<events, exit_code, ist>>
        ELSE /\ events' = Append(events, "log_bold")
             /\ ist' = ist + 1
             /\ UNCHANGED <<connected, pc, exit_code>>
    /\ UNCHANGED <<OPT, WEB_GUI_ENABLED, STATE_agents, CALLBACKS, runner, site_started,
                   discovered, notMain>>

\* line 85: await ist.connect()
Connect ==
    /\ pc = "connect"
    /\ ist <= Len(STATE_agents)
    /\ \E outcome \in {"ok", "ConnectionError", "ValueError"} :
        IF outcome = "ok"
        THEN /\ connected' = connected \cup {ist}
             /\ pc' = "hass_discover_sensors"
             /\ UNCHANGED <<events, exit_code>>
        ELSE /\ ConnectionFailed
             /\ UNCHANGED connected
    /\ UNCHANGED <<OPT, WEB_GUI_ENABLED, STATE_agents, CALLBACKS, runner, site_started,
                   ist, discovered, notMain>>

\* lines 86-101: await ist.hass_discover_sensors(), build_callback_schedule,
\* CALLBACKS.append(ist.cb), the table of the inverter's sensors
Discover ==
    /\ pc = "hass_discover_sensors"
    /\ \E outcome \in {"ok", "ConnectionError", "ValueError"} :
        IF outcome = "ok"
        THEN /\ discovered' = discovered \cup {ist}
             /\ CALLBACKS' = Append(CALLBACKS, [name |-> "ist.cb", index |-> ist])
             /\ ist' = ist + 1
             /\ pc' = "connect"
             /\ UNCHANGED <<events, exit_code>>
        ELSE /\ ConnectionFailed
             /\ UNCHANGED <<discovered, CALLBACKS, ist>>
    /\ UNCHANGED <<OPT, WEB_GUI_ENABLED, STATE_agents, runner, site_started,
                   connected, notMain>>

\* lines 110-115: after the loop, log_errors is registered and run_callbacks awaited
RunCallbacks ==
    /\ pc = "connect"
    /\ ist > Len(STATE_agents)
    /\ CALLBACKS' = Append(CALLBACKS, [name |-> "log_errors", index |-> 0])
    /\ Log("run_callbacks")
    /\ pc' = "run_callbacks"
    /\ UNCHANGED <<OPT, WEB_GUI_ENABLED, STATE_agents, runner, site_started, ist,
                   connected, discovered, exit_code, notMain>>

\* run_callbacks returns or raises: the finally clause is entered
RunCallbacksEnds ==
    /\ pc = "run_callbacks"
    /\ \E outcome \in {"returns", "raises"} :
        /\ pc' = IF outcome = "returns" THEN "finally" ELSE "finally_raising"
        /\ Log("run_callbacks " \o outcome)
    /\ UNCHANGED <<OPT, WEB_GUI_ENABLED, STATE_agents, CALLBACKS, runner, site_started,
                   ist, connected, discovered, exit_code, notMain>>

\* lines 116-121 and server.py stop_web_server: the finally clause, then
\* return 0 or the exception of run_callbacks
Finally ==
    /\ pc \in {"finally", "finally_raising"}
    /\ IF WEB_GUI_ENABLED
       THEN /\ Log("stop_web_server")
            /\ runner' = FALSE
            /\ site_started' = IF runner THEN FALSE ELSE site_started
       ELSE UNCHANGED <<events, runner, site_started>>
    /\ IF pc = "finally"
       THEN pc' = "done" /\ exit_code' = {0}
       ELSE pc' = "raised" /\ UNCHANGED exit_code
    /\ UNCHANGED <<OPT, WEB_GUI_ENABLED, STATE_agents, CALLBACKS, ist, connected,
                   discovered, notMain>>

NextMain ==
    \/ StartWebServer
    \/ InitDriver
    \/ InitSensors
    \/ Connect
    \/ Discover
    \/ RunCallbacks
    \/ RunCallbacksEnds
    \/ Finally

(***************************************************************************)
(* web_gui/server.py: the handlers that change the inverter list of the    *)
(* options object.  A JSON value of a request body is kept with its type.  *)
(***************************************************************************)
JStr(s) == [t |-> "str", s |-> s, n |-> 0]

JInt(n) == [t |-> "int", s |-> "", n |-> n]

JNull == [t |-> "null", s |-> "", n |-> 0]

\* the float that json.loads returns for a number too large, such as 1e999
JInf == [t |-> "float", s |-> "inf", n |-> 0]

\* str.lower() on the strings of the model
lower(s) ==
    CASE s = "INV1" -> "inv1"
      [] s = " Inv2 " -> " inv2 "
      [] s = "Inv2" -> "inv2"
      [] OTHER -> s

\* str.strip() on the strings of the model
strip(s) ==
    CASE s = " inv2 " -> "inv2"
      [] s = " Inv2 " -> "Inv2"
      [] s = " " -> ""
      [] OTHER -> s

\* the outcome of a conversion: the value, or the exception raised
Ok(n) == [err |-> "", n |-> n]

Err(e) == [err |-> e, n |-> 0]

\* int(s) of a string
int_str(s) ==
    CASE s = "-1" -> Ok(-1)
      [] s = "0" -> Ok(0)
      [] s = "1" -> Ok(1)
      [] s = "2" -> Ok(2)
      [] s = "3" -> Ok(3)
      [] s = "5" -> Ok(5)
      [] OTHER -> Err("ValueError")

\* int(v) of a JSON value: a number, a string that parses, else an exception
\* (OverflowError for the infinite float)
int(v) ==
    IF v.t = "int" THEN Ok(v.n)
    ELSE IF v.t = "str" THEN int_str(v.s)
    ELSE IF v.t = "float" THEN Err("OverflowError")
    ELSE Err("TypeError")

\* bool(v) of a JSON value is False
Falsy(v) == v.t = "null" \/ (v.t = "str" /\ v.s = "") \/ (v.t = "int" /\ v.n = 0)

\* data.get(key, default)
get(data, key, default) == IF key \in DOMAIN data THEN data[key] ELSE default

\* web.json_response(..., status=status)
json_response(status, msg) ==
    [status |-> status, error |-> msg, updated |-> <<>>, errors |-> <<>>]

\* an unhandled exception: aiohttp answers 500
Unhandled(e) == json_response(500, e)

\* what a handler leaves behind: the inverter list and the response
Handled(inverters, resp) == [inverters |-> inverters, response |-> resp]

\* options.py InverterOptions(...) with __attrs_post_init__: ha_prefix is
\* lower-cased and stripped; without connector and dongle serial an empty
\* port becomes OPT.debug_device
InverterOptions(opt, connector, port, modbus_id, ha_prefix, serial_nr, dsn) ==
    [connector |-> connector,
     port |-> IF connector = "" /\ dsn = 0 /\ port = "" THEN opt.debug_device ELSE port,
     modbus_id |-> modbus_id,
     ha_prefix |-> strip(lower(ha_prefix)),
     serial_nr |-> serial_nr,
     dongle_serial_number |-> dsn]

\* existing_prefixes = [inv.ha_prefix for inv in _options.inverters]
existing_prefixes(opt) == {opt.inverters[i].ha_prefix : i \in DOMAIN opt.inverters}

\* a plausible slip: the new prefix compared as sent, not lower-cased and stripped
add_inverter_raw_compare(opt, data) ==
    IF Falsy(get(data, "ha_prefix", JNull))
    THEN Handled(opt.inverters, json_response(400, "ha_prefix is required"))
    ELSE IF data["ha_prefix"].t # "str"
    THEN Handled(opt.inverters, Unhandled("AttributeError"))
    ELSE IF data["ha_prefix"].s \in existing_prefixes(opt)
    THEN Handled(opt.inverters, json_response(400, "ha_prefix already exists"))
    ELSE
        LET modbus_id == int(get(data, "modbus_id", JInt(1)))
            dsn == int(get(data, "dongle_serial_number", JInt(0)))
        IN  IF modbus_id.err # "" THEN Handled(opt.inverters, Unhandled(modbus_id.err))
            ELSE IF dsn.err # "" THEN Handled(opt.inverters, Unhandled(dsn.err))
            ELSE Handled(Append(opt.inverters,
                                InverterOptions(opt, "", get(data, "port", JStr("")).s,
                                                modbus_id.n,
                                                strip(lower(data["ha_prefix"].s)),
                                                get(data, "serial_nr", JStr("")).s,
                                                dsn.n)),
                         json_response(200, ""))

\* add_inverter after `await request.json()` returned data
add_inverter(opt, data) ==
    IF Falsy(get(data, "ha_prefix", JNull))
    THEN Handled(opt.inverters, json_response(400, "ha_prefix is required"))
    ELSE IF data["ha_prefix"].t # "str"
    THEN Handled(opt.inverters, Unhandled("AttributeError"))
    ELSE IF strip(lower(data["ha_prefix"].s)) \in existing_prefixes(opt)
    THEN Handled(opt.inverters, json_response(400, "ha_prefix already exists"))
    ELSE
        LET modbus_id == int(get(data, "modbus_id", JInt(1)))
            dsn == int(get(data, "dongle_serial_number", JInt(0)))
        IN  IF modbus_id.err # "" THEN Handled(opt.inverters, Unhandled(modbus_id.err))
            ELSE IF dsn.err # "" THEN Handled(opt.inverters, Unhandled(dsn.err))
            ELSE Handled(Append(opt.inverters,
                                InverterOptions(opt, "", get(data, "port", JStr("")).s,
                                                modbus_id.n,
                                                strip(lower(data["ha_prefix"].s)),
                                                get(data, "serial_nr", JStr("")).s,
                                                dsn.n)),
                         json_response(200, ""))

\* the assignments of update_inverter to inv, in the order of the source; an
\* exception leaves the assignments already made
update_fields(inv, data) ==
    LET inv1 == IF "ha_prefix" \in DOMAIN data
                THEN [inv EXCEPT !.ha_prefix = strip(lower(data["ha_prefix"].s))]
                ELSE inv
        inv2 == IF "serial_nr" \in DOMAIN data
                THEN [inv1 EXCEPT !.serial_nr = data["serial_nr"].s]
                ELSE inv1
        modbus_id == int(get(data, "modbus_id", JInt(inv.modbus_id)))
        inv3 == IF modbus_id.err = "" THEN [inv2 EXCEPT !.modbus_id = modbus_id.n]
                ELSE inv2
        inv4 == IF "port" \in DOMAIN data
                THEN [inv3 EXCEPT !.port = data["port"].s]
                ELSE inv3
        dsn == int(get(data, "dongle_serial_number", JInt(inv.dongle_serial_number)))
        inv5 == [inv4 EXCEPT !.dongle_serial_number = dsn.n]
    IN  IF modbus_id.err # "" THEN [inv |-> inv3, err |-> modbus_id.err]
        ELSE IF dsn.err # "" THEN [inv |-> inv4, err |-> dsn.err]
        ELSE [inv |-> inv5, err |-> ""]

\* update_inverter after `await request.json()` returned data; index was
\* checked against the list before the await
update_inverter(opt, index, data) ==
    IF index >= Len(opt.inverters)
    THEN Handled(opt.inverters, Unhandled("IndexError"))
    ELSE IF "ha_prefix" \in DOMAIN data /\ data["ha_prefix"].t # "str"
    THEN Handled(opt.inverters, Unhandled("AttributeError"))
    ELSE IF /\ "ha_prefix" \in DOMAIN data
            /\ \E i \in DOMAIN opt.inverters :
                /\ i # index + 1
                /\ opt.inverters[i].ha_prefix = strip(lower(data["ha_prefix"].s))
    THEN Handled(opt.inverters, json_response(400, "ha_prefix already exists"))
    ELSE
        LET got == update_fields(opt.inverters[index + 1], data) IN
        Handled([opt.inverters EXCEPT ![index + 1] = got.inv],
                IF got.err # "" THEN Unhandled(got.err) ELSE json_response(200, ""))

\* list.pop(index)
pop(seq, index) == [i \in 1..(Len(seq) - 1) |-> IF i <= index THEN seq[i] ELSE seq[i + 1]]

\* a plausible slip: the check for the last inverter missing
delete_inverter_last_too(opt, index) ==
    IF index < 0 \/ index >= Len(opt.inverters)
    THEN Handled(opt.inverters, json_response(404, "Inverter not found"))
    ELSE Handled(pop(opt.inverters, index), json_response(200, ""))

\* delete_inverter for a path index that int() accepted
delete_inverter(opt, index) ==
    IF index < 0 \/ index >= Len(opt.inverters)
    THEN Handled(opt.inverters, json_response(404, "Inverter not found"))
    ELSE IF Len(opt.inverters) <= 1
    THEN Handled(opt.inverters, json_response(400, "Cannot delete the last inverter"))
    ELSE Handled(pop(opt.inverters, index), json_response(200, ""))

\* the ha_prefix values requests are sent with
RawPrefixes == {"inv1", "INV1", " Inv2 ", "inv2", " "}

\* the empty JSON object
EmptyBody == [k \in {} |-> JNull]

\* the JSON objects sent to add_inverter and update_inverter
InverterBodies ==
    {EmptyBody}
    \cup {("ha_prefix" :> JStr(p)) : p \in RawPrefixes}
    \cup {("ha_prefix" :> JInt(7)),
          ("ha_prefix" :> JStr("INV1")) @@ ("modbus_id" :> JStr("x")),
          ("ha_prefix" :> JStr("inv2")) @@ ("serial_nr" :> JStr("sn"))}

\* the index of the path /api/inverters/{index}
IndexInputs == {"-1", "0", "1", "2", "x"}

\* the most inverters the list is grown to
MaxWebInverters == 2

\* an inverter as load_dict structures it from the configuration
ConfiguredInverter(prefix) ==
    [connector |-> "", port |-> "", modbus_id |-> 1, ha_prefix |-> prefix,
     serial_nr |-> "", dongle_serial_number |-> 0]

\* the options object as start_web_server receives it
WebOptions(inverters) ==
    [debug |-> 0, timeout |-> 10, read_sensors_batch_size |-> 20, read_allow_gap |-> 2,
     inverters |-> inverters,
     schedules |-> <<"no_unit">>, sensors |-> <<"energy_management">>,
     sensors_first_inverter |-> <<>>,
     mqtt_host |-> "core-mosquitto", mqtt_port |-> 1883,
     mqtt_username |-> "", mqtt_password |-> "",
     connectors |-> <<>>,
     driver |-> "pymodbus", sensor_definitions |-> "single-phase",
     manufacturer |-> "Sunsynk", number_entity_mode |-> "auto",
     prog_time_interval |-> 15, debug_device |-> ""]

\* no request was handled yet
NoRequest == [handler |-> "", index |-> "", data |-> EmptyBody, awaiting |-> FALSE]

Request(handler, index, data, awaiting) ==
    [handler |-> handler, index |-> index, data |-> data, awaiting |-> awaiting]

NoResponse == json_response(0, "")

\* the fields of a ConnectorOptions
ConnectorFields(name, type, driver, dongle_serial) ==
    [name |-> name, type |-> type, host |-> "", port |-> 502, driver |-> driver,
     timeout |-> 10, dongle_serial |-> dongle_serial, baudrate |-> 9600]

NoConnectors == [present |-> FALSE, is_list |-> TRUE, items |-> <<>>]

NoValue == [connectors |-> NoConnectors, debug |-> [present |-> FALSE, v |-> JNull],
            unknown_key |-> FALSE]

NoArguments == ConnectorFields("", "", "", 0)

\* a call: what was called and with what
Call(op, arguments, value) == [op |-> op, arguments |-> arguments, value |-> value]

LoadIdle ==
    /\ load_call = Call("", NoArguments, NoValue)
    /\ load_raised = ""

WebIdle ==
    /\ _options = WebOptions(<<ConfiguredInverter("inv1")>>)
    /\ request = NoRequest
    /\ response = NoResponse
    /\ LoadIdle

\* a configuration with pairwise distinct ha_prefix values
InitWebInverters ==
    /\ _options \in {WebOptions(<<ConfiguredInverter("inv1")>>),
                     WebOptions(<<ConfiguredInverter("inv1"), ConfiguredInverter("inv2")>>)}
    /\ request = NoRequest
    /\ response = NoResponse
    /\ LoadIdle

\* a handler that ran to its end: the list it leaves and its response; index is
\* the index of the path as sent
Answer(handler, index, data, got) ==
    /\ _options' = [_options EXCEPT !.inverters = got.inverters]
    /\ request' = Request(handler, index, data, FALSE)
    /\ response' = got.response
    /\ UNCHANGED notWeb

\* POST /api/inverters.  Its only await comes before it reads the options, so it
\* is one step; run while an update is suspended it only appends to the list,
\* which the index check of that update allows for as well.
AddInverter ==
    /\ ~request.awaiting
    /\ Len(_options.inverters) < MaxWebInverters
    /\ \E data \in InverterBodies :
        Answer("add_inverter", "", data, add_inverter(_options, data))

\* PUT /api/inverters/{index}, up to `await request.json()`: the index is
\* converted and checked against the list
UpdateInverterBegin ==
    /\ ~request.awaiting
    /\ \E idx \in IndexInputs, data \in InverterBodies :
        LET index == int_str(idx) IN
        IF index.err # ""
        THEN Answer("update_inverter", idx, data,
                    Handled(_options.inverters, json_response(400, "Invalid inverter index")))
        ELSE IF index.n < 0 \/ index.n >= Len(_options.inverters)
        THEN Answer("update_inverter", idx, data,
                    Handled(_options.inverters, json_response(404, "Inverter not found")))
        ELSE /\ request' = Request("update_inverter", idx, data, TRUE)
             /\ UNCHANGED <<_options, response, notWeb>>

\* PUT /api/inverters/{index}, from the return of `await request.json()`
UpdateInverter ==
    /\ request.awaiting
    /\ Answer("update_inverter", request.index, request.data,
              update_inverter(_options, int_str(request.index).n, request.data))

\* DELETE /api/inverters/{index}; it has no await, so it also runs while an
\* update is suspended, and leaves the suspended request in place
DeleteInverter ==
    \E idx \in IndexInputs :
        LET index == int_str(idx)
            got == IF index.err # ""
                   THEN Handled(_options.inverters,
                                json_response(400, "Invalid inverter index"))
                   ELSE delete_inverter(_options, index.n)
        IN  /\ _options' = [_options EXCEPT !.inverters = got.inverters]
            /\ response' = got.response
            /\ request' = IF request.awaiting THEN request
                          ELSE Request("delete_inverter", idx, EmptyBody, FALSE)
            /\ UNCHANGED notWeb

NextInverters ==
    \/ AddInverter
    \/ UpdateInverterBegin
    \/ UpdateInverter
    \/ DeleteInverter

(***************************************************************************)
(* web_gui/server.py: update_live_config.                                  *)
(***************************************************************************)
\* a plausible slip: one more entry in the table of live-updatable fields
live_updatable_with_driver ==
    <<[field |-> "debug", converter |-> "int"],
      [field |-> "timeout", converter |-> "int"],
      [field |-> "read_sensors_batch_size", converter |-> "int"],
      [field |-> "read_allow_gap", converter |-> "int"],
      [field |-> "driver", converter |-> "str"]>>

\* live_updatable, a dict: its items in insertion order
live_updatable ==
    <<[field |-> "debug", converter |-> "int"],
      [field |-> "timeout", converter |-> "int"],
      [field |-> "read_sensors_batch_size", converter |-> "int"],
      [field |-> "read_allow_gap", converter |-> "int"]>>

\* converter(data[field]); data[field] of a list raises TypeError
convert(converter, data, field) ==
    IF data.kind = "list" THEN [err |-> "TypeError", n |-> 0, s |-> ""]
    ELSE IF converter = "int"
    THEN [err |-> int(data.members[field]).err, n |-> int(data.members[field]).n, s |-> ""]
    ELSE [err |-> "", n |-> 0,
          s |-> IF data.members[field].t = "int" THEN ToString(data.members[field].n)
                ELSE data.members[field].s]

\* field in data, for a JSON object or a JSON list of strings
In(field, data) == field \in (IF data.kind = "list" THEN data.items ELSE DOMAIN data.members)

\* except (ValueError, TypeError)
Caught == {"ValueError", "TypeError"}

RECURSIVE live_loop(_, _, _, _, _)
\* the loop over live_updatable.items() from item i on; an exception that the
\* except clause does not name ends the loop and leaves the handler
live_loop(opt, data, i, updated, errors) ==
    IF i > Len(live_updatable)
    THEN [options |-> opt, updated |-> updated, errors |-> errors, raised |-> ""]
    ELSE
        LET item == live_updatable[i] IN
        IF ~In(item.field, data) THEN live_loop(opt, data, i + 1, updated, errors)
        ELSE
            LET value == convert(item.converter, data, item.field) IN
            IF value.err \in Caught
            THEN live_loop(opt, data, i + 1, updated, Append(errors, item.field))
            ELSE IF value.err # ""
            THEN [options |-> opt, updated |-> updated, errors |-> errors,
                  raised |-> value.err]
            ELSE live_loop([opt EXCEPT ![item.field] =
                                IF item.converter = "int" THEN value.n ELSE value.s],
                           data, i + 1, Append(updated, item.field), errors)

\* update_live_config after `await request.json()` returned data
update_live_config(opt, data) ==
    IF data.kind = "number"
    THEN [options |-> opt, response |-> Unhandled("TypeError")]
    ELSE
        LET got == live_loop(opt, data, 1, <<>>, <<>>) IN
        [options |-> got.options,
         response |-> IF got.raised # "" THEN Unhandled(got.raised)
                      ELSE IF got.errors # <<>>
                      THEN [status |-> IF got.updated = <<>> THEN 400 ELSE 200,
                            error |-> "errors", updated |-> got.updated,
                            errors |-> got.errors]
                      ELSE [status |-> 200, error |-> "", updated |-> got.updated,
                            errors |-> <<>>]]

\* the keys of the request bodies: the live-updatable fields and two others
LiveKeys == {"debug", "timeout", "read_sensors_batch_size", "read_allow_gap"}

OtherKeys == {"driver", "inverters"}

\* the values sent with a key: a number, a string that int() parses, one it
\* does not, null and a number too large for a float
ValuesOf(key) ==
    CASE key = "debug" -> {JInt(5), JStr("abc")}
      [] key = "timeout" -> {JStr("5"), JNull, JInf}
      [] key = "read_sensors_batch_size" -> {JInt(5), JNull}
      [] key = "read_allow_gap" -> {JStr("5"), JStr("abc")}
      [] OTHER -> {JStr("solarman")}

AllValues == {JInt(5), JStr("5"), JStr("abc"), JNull, JInf, JStr("solarman")}

\* the most members of a request body
MaxMembers == 2

Body(kind, members, items) == [kind |-> kind, members |-> members, items |-> items]

Object(members) == Body("object", members, {})

AllKeys == LiveKeys \cup OtherKeys

\* the JSON objects whose keys are `keys`
ObjectsOver(keys) ==
    {Object(f) : f \in {g \in [keys -> AllValues] :
                            \A k \in keys : g[k] \in ValuesOf(k)}}

\* the bodies sent to /api/config/live: JSON objects, a list and a number
LiveBodies ==
    UNION {ObjectsOver(ks) : ks \in {k \in SUBSET AllKeys : Cardinality(k) <= MaxMembers}}
    \cup {Body("list", EmptyBody, {"debug"}), Body("number", EmptyBody, {})}

InitWebLive ==
    /\ _options = WebOptions(<<ConfiguredInverter("inv1")>>)
    /\ request = [NoRequest EXCEPT !.data = Object(EmptyBody)]
    /\ response = NoResponse
    /\ LoadIdle

\* POST /api/config/live
UpdateLiveConfig ==
    \E data \in LiveBodies :
        LET got == update_live_config(_options, data) IN
        /\ _options' = got.options
        /\ request' = Request("update_live_config", "", data, FALSE)
        /\ response' = got.response
        /\ UNCHANGED notWeb

NextLive == UpdateLiveConfig

(***************************************************************************)
(* sensor_options.py: SensorOptions.init_sensors, _add_sensor_with_deps    *)
(* and get_sensors.  A sensor is named by its id; the recursion of         *)
(* _add_sensor_with_deps is kept as a stack of frames, and the generator   *)
(* get_sensors as the names it has still to look at.  OPT of               *)
(* sensor_options.py is the options object the web server holds.           *)
(***************************************************************************)
\* the ids of the sensors of DEFS.all (DEFS_sensors here), in the order of the dict
SensorIds == <<"rated_power", "serial", "a", "b", "c">>

\* Sensor.name of the sensor with this id
Name(id) ==
    CASE id = "rated_power" -> "Rated power"
      [] id = "serial" -> "Serial"
      [] id = "a" -> "A"
      [] id = "b" -> "B"
      [] OTHER -> id

\* sunsynk.helpers.slug on the names of the model
slug(name) ==
    CASE name = "Rated power" -> "rated_power"
      [] name = "Serial" -> "serial"
      [] name = "A" -> "a"
      [] name = "B" -> "b"
      [] OTHER -> name

\* ":" in sensor_def
HasColon(sensor_def) == sensor_def = "a:60"

\* the sensor definitions: the ids of the RWSensors, their dependencies (a
\* plain Sensor has none), and the deprecated names
Definitions(deps) ==
    [all |-> SensorIds, rw |-> {"a", "b", "c"}, dependencies |-> deps,
     deprecated |-> {"old_a"}]

\* the dependency graphs: chains, a self-loop, two-cycles, a three-cycle;
\* rated_power and serial are plain sensors
DependencyGraphs ==
    {[id \in Range(SensorIds) |->
        CASE id = "a" -> da [] id = "b" -> db [] id = "c" -> dc [] OTHER -> <<>>] :
     da \in {<<>>, <<"b">>, <<"a">>, <<"b", "rated_power">>},
     db \in {<<>>, <<"a">>, <<"c">>},
     dc \in {<<>>, <<"a">>, <<"b">>}}

\* SENSOR_GROUPS with the sensors of the model in the group "settings"
SensorGroups ==
    {("settings" :> members) : members \in {<<"b">>, <<"c", "a">>, <<"nosuch">>}}

\* OPT.sensors and OPT.sensors_first_inverter
ConfiguredSensors ==
    {<<>>, <<"a">>, <<"B">>, <<"a", "c">>, <<"c", "a">>, <<"settings">>,
     <<"rated_power", "a:60">>, <<"old_a", "nosuch", "all">>}

FirstInverterSensors == {<<>>, <<"c">>, <<"serial">>, <<"b">>, <<"settings">>}

\* SensorOption(sensor, schedule, visible, first): startup and affects at
\* their defaults (the schedule is not modelled)
SensorOption(visible, first) ==
    [visible |-> visible, startup |-> FALSE, affects |-> {}, first |-> first]

\* self[sensor] = option
Put(sopt, id, option) ==
    [s \in DOMAIN sopt \cup {id} |-> IF s = id THEN option ELSE sopt[s]]

\* any(slug(name) == slug(sensor.name) for group in SENSOR_GROUPS.values() for name in group)
is_in_group(id) ==
    \E g \in DOMAIN SENSOR_GROUPS :
        \E k \in DOMAIN SENSOR_GROUPS[g] : slug(SENSOR_GROUPS[g][k]) = slug(Name(id))

\* sensor.dependencies, for an RWSensor
dependencies(id) == DEFS_sensors.dependencies[id]

\* a call of _add_sensor_with_deps: its arguments, whether it got past the
\* cycle check, and the index of the dependency the loop is at
Frame(id, visible, path) ==
    [sensor |-> id, visible |-> visible, path |-> path, entered |-> FALSE, i |-> 1]

\* a generator get_sensors(target=self, names=names): the names, the position,
\* warn, and the groups met so far
Generator(names) == [names |-> names, i |-> 1, warn |-> TRUE, groups |-> <<>>]

NoGenerator == Generator(<<>>)

\* a plausible slip: the cycle check missing
on_path_never(frame) == FALSE

\* sensor in path
on_path(frame) == frame.sensor \in frame.path

\* a plausible slip: the affects entry never recorded
AfterCall_no_affects(stk, sopt, dep) ==
    IF stk = <<>> THEN [stack |-> stk, SOPT |-> sopt]
    ELSE [stack |-> [stk EXCEPT ![Len(stk)].i = stk[Len(stk)].i + 1], SOPT |-> sopt]

\* a plausible slip: the affects entry recorded on the dependent sensor
AfterCall_reversed(stk, sopt, dep) ==
    IF stk = <<>> THEN [stack |-> stk, SOPT |-> sopt]
    ELSE
        LET caller == stk[Len(stk)] IN
        [stack |-> [stk EXCEPT ![Len(stk)].i = caller.i + 1],
         SOPT |-> IF dep \in DOMAIN sopt /\ caller.sensor \in DOMAIN sopt
                  THEN [sopt EXCEPT ![caller.sensor].affects =
                                        sopt[caller.sensor].affects \cup {dep}]
                  ELSE sopt]

\* the caller's lines 95-96 and the next turn of its loop, once the call for
\* the dependency dep has returned: stk is the stack without the returned frame
AfterCall(stk, sopt, dep) ==
    IF stk = <<>> THEN [stack |-> stk, SOPT |-> sopt]
    ELSE
        LET caller == stk[Len(stk)] IN
        [stack |-> [stk EXCEPT ![Len(stk)].i = caller.i + 1],
         SOPT |-> IF dep \in DOMAIN sopt /\ caller.sensor \in DOMAIN sopt
                  THEN [sopt EXCEPT ![dep].affects = sopt[dep].affects \cup {caller.sensor}]
                  ELSE sopt]

Top == stack[Len(stack)]

Pop == SubSeq(stack, 1, Len(stack) - 1)

RECURSIVE get_sensors(_, _)
\* get_sensors run to its next yield: the generator it leaves and the sensor
\* yielded, "" when the generator is exhausted; target is SOPT at that time.
\* A group is expanded after the names, with warn=False.
get_sensors(g, target) ==
    IF g.i <= Len(g.names)
    THEN
        LET sensor_def == g.names[g.i]
            name == slug(sensor_def)
            next == [g EXCEPT !.i = g.i + 1]
        IN  IF HasColon(sensor_def) THEN get_sensors(next, target)
            ELSE IF name \in DOMAIN SENSOR_GROUPS \/ name = "all"
            THEN get_sensors([next EXCEPT !.groups =
                                IF name \in Range(g.groups) THEN g.groups
                                ELSE Append(g.groups, name)], target)
            ELSE IF name \in DEFS_sensors.deprecated THEN get_sensors(next, target)
            ELSE IF name \in {Name(t) : t \in target} /\ g.warn
            THEN get_sensors(next, target)
            ELSE IF name \notin Range(DEFS_sensors.all) THEN get_sensors(next, target)
            ELSE [gen |-> next, sen |-> name]
    ELSE IF g.groups # <<>>
    THEN get_sensors([names |-> IF g.groups[1] = "all" THEN DEFS_sensors.all
                                ELSE SENSOR_GROUPS[g.groups[1]],
                      i |-> 1, warn |-> FALSE, groups |-> Tail(g.groups)], target)
    ELSE [gen |-> g, sen |-> ""]

sensConfig == <<DEFS_sensors, SENSOR_GROUPS>>

\* init_sensors not called
SensIdle ==
    /\ DEFS_sensors = Definitions([id \in Range(SensorIds) |-> <<>>])
    /\ SENSOR_GROUPS = ("settings" :> <<"b">>)
    /\ SOPT = <<>>
    /\ startup = {}
    /\ stack = <<>>
    /\ sopt_pc = "not_called"
    /\ gen = NoGenerator
    /\ warnings = {}

\* main_loop calls SOPT.init_sensors()
InitSensorOptions ==
    /\ DEFS_sensors \in {Definitions(deps) : deps \in DependencyGraphs}
    /\ SENSOR_GROUPS \in SensorGroups
    /\ SOPT = <<>>
    /\ startup = {}
    /\ stack = <<>>
    /\ sopt_pc = "init_sensors"
    /\ gen = NoGenerator
    /\ warnings = {}

\* the options init_sensors reads
InitSensorNames ==
    /\ \E names \in ConfiguredSensors, first \in FirstInverterSensors :
        _options = [WebOptions(<<ConfiguredInverter("inv1")>>) EXCEPT
                        !.sensors = names, !.sensors_first_inverter = first]
    /\ request = NoRequest
    /\ response = NoResponse
    /\ LoadIdle

\* lines 102-108: self.clear(), the startup set, and the call for rated_power
InitSensorsRatedPower ==
    /\ sopt_pc = "init_sensors"
    /\ SOPT' = <<>>
    /\ startup' = {"rated_power", "serial"}
    /\ stack' = <<Frame("rated_power", FALSE, {})>>
    /\ sopt_pc' = "serial"
    /\ UNCHANGED <<sensConfig, gen, warnings, notSens>>

\* line 109: the call for serial
InitSensorsSerial ==
    /\ sopt_pc = "serial" /\ stack = <<>>
    /\ stack' = <<Frame("serial", FALSE, {})>>
    /\ sopt_pc' = "sensors"
    /\ gen' = Generator(_options.sensors)
    /\ UNCHANGED <<sensConfig, SOPT, startup, warnings, notSens>>

\* lines 112-113: the next sensor of get_sensors(names=OPT.sensors), or the
\* end of the loop
InitSensorsConfigured ==
    /\ sopt_pc = "sensors" /\ stack = <<>>
    /\ LET got == get_sensors(gen, DOMAIN SOPT) IN
        IF got.sen # ""
        THEN /\ stack' = <<Frame(got.sen, TRUE, {})>>
             /\ gen' = got.gen
             /\ UNCHANGED sopt_pc
        ELSE /\ sopt_pc' = "sensors_first_inverter"
             /\ gen' = Generator(_options.sensors_first_inverter)
             /\ UNCHANGED stack
    /\ UNCHANGED <<sensConfig, SOPT, startup, warnings, notSens>>

\* lines 116-131: the next sensor of get_sensors(names=OPT.sensors_first_inverter),
\* or the end of the loop and of init_sensors
InitSensorsFirstInverter ==
    /\ sopt_pc = "sensors_first_inverter" /\ stack = <<>>
    /\ LET got == get_sensors(gen, DOMAIN SOPT) IN
        IF got.sen # ""
        THEN /\ gen' = got.gen
             /\ UNCHANGED sopt_pc
             /\ IF got.sen \notin DOMAIN SOPT
                THEN /\ SOPT' = Put(SOPT, got.sen, SensorOption(TRUE, TRUE))
                     /\ stack' = <<Frame(got.sen, TRUE, {})>>
                ELSE UNCHANGED <<SOPT, stack>>
        ELSE /\ sopt_pc' = "done"
             /\ UNCHANGED <<gen, SOPT, stack>>
    /\ UNCHANGED <<sensConfig, startup, warnings, notSens>>

\* lines 57-62: the sensor is on the path: the cycle is logged and the call
\* returns to its caller
AddSensorCircular ==
    /\ stack # <<>> /\ ~Top.entered /\ on_path(Top)
    /\ warnings' = warnings \cup {Top.sensor}
    /\ LET after == AfterCall(Pop, SOPT, Top.sensor) IN
        /\ stack' = after.stack
        /\ SOPT' = after.SOPT
    /\ UNCHANGED <<sensConfig, startup, sopt_pc, gen, notSens>>

\* lines 64-84: the sensor joins the path and the startup set, and SOPT when
\* it is visible, at most one step from the first sensor, or in a group
AddSensorEnter ==
    /\ stack # <<>> /\ ~Top.entered /\ ~on_path(Top)
    /\ LET path == Top.path \cup {Top.sensor} IN
        /\ stack' = [stack EXCEPT ![Len(stack)].path = path,
                                  ![Len(stack)].entered = TRUE]
        /\ startup' = startup \cup {Top.sensor}
        /\ SOPT' = IF /\ Top.visible \/ Cardinality(path) <= 2 \/ is_in_group(Top.sensor)
                      /\ Top.sensor \notin DOMAIN SOPT
                   THEN Put(SOPT, Top.sensor,
                            SensorOption(Top.visible \/ is_in_group(Top.sensor), FALSE))
                   ELSE SOPT
    /\ UNCHANGED <<sensConfig, sopt_pc, gen, warnings, notSens>>

\* lines 86-94: the call for the next dependency of an RWSensor
AddSensorDependency ==
    /\ stack # <<>> /\ Top.entered
    /\ Top.sensor \in DEFS_sensors.rw /\ Top.i <= Len(dependencies(Top.sensor))
    /\ LET dep == dependencies(Top.sensor)[Top.i] IN
        stack' = Append(stack, Frame(dep, Top.visible \/ is_in_group(dep), Top.path))
    /\ UNCHANGED <<sensConfig, SOPT, startup, sopt_pc, gen, warnings, notSens>>

\* line 98: the loop is over (or the sensor is no RWSensor): the call returns
AddSensorReturn ==
    /\ stack # <<>> /\ Top.entered
    /\ ~(Top.sensor \in DEFS_sensors.rw /\ Top.i <= Len(dependencies(Top.sensor)))
    /\ LET after == AfterCall(Pop, SOPT, Top.sensor) IN
        /\ stack' = after.stack
        /\ SOPT' = after.SOPT
    /\ UNCHANGED <<sensConfig, startup, sopt_pc, gen, warnings, notSens>>

NextSensors ==
    \/ InitSensorsRatedPower
    \/ InitSensorsSerial
    \/ InitSensorsConfigured
    \/ InitSensorsFirstInverter
    \/ AddSensorCircular
    \/ AddSensorEnter
    \/ AddSensorDependency
    \/ AddSensorReturn

(***************************************************************************)
(* options.py: ConnectorOptions, _convert_connectors and Options.load_dict *)
(* (OPT is the options object the web server holds).                       *)
(***************************************************************************)
\* the most connectors in the list given to load_dict
MaxConnectors == 2

\* a plausible slip: the dongle_serial check missing
ConnectorOptions_no_dongle_check(c) ==
    IF c.type \notin {"tcp", "serial", "solarman"} THEN "ValueError: Invalid connector type"
    ELSE IF c.driver \notin {"pymodbus", "umodbus", "solarman"} THEN "ValueError: Invalid driver"
    ELSE ""

\* ConnectorOptions.__attrs_post_init__ on the fields c: the exception it
\* raises, "" when it returns
ConnectorOptions(c) ==
    IF c.type \notin {"tcp", "serial", "solarman"} THEN "ValueError: Invalid connector type"
    ELSE IF c.driver \notin {"pymodbus", "umodbus", "solarman"} THEN "ValueError: Invalid driver"
    ELSE IF c.type = "solarman" /\ c.dongle_serial = 0
    THEN "ValueError: Solarman connector requires dongle_serial"
    ELSE ""

\* the fields cattrs.structure(item, ConnectorOptions) takes from the dict
\* item, absent keys at their defaults
structure_fields(item) ==
    ConnectorFields(item["name"].s, item["type"].s,
                    get(item, "driver", JStr("pymodbus")).s,
                    int(get(item, "dongle_serial", JInt(0))).n)

\* cattrs.structure(item, ConnectorOptions): the exception it raises, if any
structure_connector(item) ==
    IF int(get(item, "dongle_serial", JInt(0))).err # "" THEN "StructureError"
    ELSE IF ConnectorOptions(structure_fields(item)) # "" THEN "StructureError"
    ELSE ""

\* _convert_connectors(data): the structured list, or the exception of the
\* first item that fails
convert_connectors(data) ==
    IF ~data.is_list
    THEN [err |-> "ValueError: Expected list", connectors |-> <<>>]
    ELSE IF \E k \in DOMAIN data.items : structure_connector(data.items[k]) # ""
    THEN [err |-> "StructureError", connectors |-> <<>>]
    ELSE [err |-> "",
          connectors |-> [k \in DOMAIN data.items |-> structure_fields(data.items[k])]]

\* Options.load_dict(value) for a value with the keys connectors, debug and a
\* key that is no field of the options: the options it leaves and the
\* exception it raises, if any.  The connectors are converted first (outside
\* the try), then the simple keys are structured (an error becomes
\* ValueError), then the simple keys are set in the order of the dict, then
\* the connectors.  CONVERTER comes from the mqtt_entity package: extra_keys
\* says whether it refuses a key that is no field ("forbidden", the structuring
\* fails) or passes over it ("ignored", the key then has no attribute to read
\* in the loop that sets the fields).
load_dict(opt, value, extra_keys) ==
    LET conv == IF value.connectors.present THEN convert_connectors(value.connectors)
                ELSE [err |-> "", connectors |-> opt.connectors]
        debug == IF value.debug.present THEN int(value.debug.v) ELSE Ok(opt.debug)
        opt1 == IF value.debug.present THEN [opt EXCEPT !.debug = debug.n] ELSE opt
    IN  IF conv.err # "" THEN [options |-> opt, raised |-> conv.err]
        ELSE IF debug.err # "" \/ (value.unknown_key /\ extra_keys = "forbidden")
        THEN [options |-> opt, raised |-> "ValueError: Error loading config"]
        ELSE IF value.unknown_key THEN [options |-> opt1, raised |-> "AttributeError"]
        ELSE [options |-> [opt1 EXCEPT !.connectors = conv.connectors], raised |-> ""]

ConnectorTypes == {"tcp", "serial", "solarman", "udp"}

ConnectorDrivers == {"pymodbus", "umodbus", "solarman", "modbus"}

\* the arguments ConnectorOptions is constructed with
ConnectorArguments ==
    {ConnectorFields("c1", t, d, n) : t \in ConnectorTypes, d \in ConnectorDrivers, n \in {0, 5}}

\* the connector dicts of a configuration: driver and dongle_serial may be absent
ConnectorItems ==
    {("name" :> JStr("c1")) @@ ("type" :> JStr(t)) @@ rest :
        t \in {"tcp", "solarman", "udp"},
        rest \in {EmptyBody,
                  ("driver" :> JStr("modbus")),
                  ("dongle_serial" :> JInt(5)),
                  ("dongle_serial" :> JStr("abc")),
                  ("driver" :> JStr("solarman")) @@ ("dongle_serial" :> JInt(0)),
                  ("driver" :> JStr("solarman")) @@ ("dongle_serial" :> JStr("5"))}}

\* the values of the key "connectors": absent, a string, or a list of dicts
ConnectorsValues ==
    {NoConnectors, [present |-> TRUE, is_list |-> FALSE, items |-> <<>>]}
    \cup {[present |-> TRUE, is_list |-> TRUE, items |-> items] :
            items \in UNION {[1..n -> ConnectorItems] : n \in 0..MaxConnectors}}

\* the dicts given to load_dict
LoadValues ==
    [connectors : ConnectorsValues,
     debug : {[present |-> FALSE, v |-> JNull], [present |-> TRUE, v |-> JInt(5)],
              [present |-> TRUE, v |-> JStr("abc")]},
     unknown_key : BOOLEAN]

\* the options before the call: no connector, or one from an earlier load
InitLoadOptions ==
    /\ _options \in {WebOptions(<<ConfiguredInverter("inv1")>>),
                     [WebOptions(<<ConfiguredInverter("inv1")>>) EXCEPT
                        !.connectors = <<ConnectorFields("c0", "tcp", "pymodbus", 0)>>]}
    /\ request = NoRequest
    /\ response = NoResponse

\* ConnectorOptions(name=..., type=..., driver=..., dongle_serial=...)
ConstructConnectorOptions ==
    /\ load_call.op = ""
    /\ \E c \in ConnectorArguments :
        /\ load_call' = Call("ConnectorOptions", c, NoValue)
        /\ load_raised' = ConnectorOptions(c)
    /\ UNCHANGED <<_options, request, response, notLoad>>

\* OPT.load_dict(value)
LoadDict ==
    /\ load_call.op = ""
    /\ \E value \in LoadValues, extra_keys \in {"forbidden", "ignored"} :
        LET got == load_dict(_options, value, extra_keys) IN
        /\ load_call' = Call("load_dict", NoArguments, value)
        /\ load_raised' = got.raised
        /\ _options' = got.options
    /\ UNCHANGED <<request, response, notLoad>>

NextLoad ==
    \/ ConstructConnectorOptions
    \/ LoadDict

(***************************************************************************)
(* The read planner (spec 4.4): the registers of the sensors due in a tick *)
(* are grouped into spans within batch_size and allow_gap.                 *)
(***************************************************************************)
\* the highest register address of a due sensor
MaxPlanAddr == 4

\* the most sensors due in one tick
MaxDue == 3

\* the largest read_sensors_batch_size
MaxBatch == 3

\* the largest read_allow_gap
MaxGap == 2

RegisterSpan(start, count) == [start |-> start, count |-> count]

\* the addresses of S in ascending order
RECURSIVE sorted(_)
sorted(S) ==
    IF S = {} THEN <<>>
    ELSE LET m == CHOOSE x \in S : \A y \in S : x <= y
         IN  <<m>> \o sorted(S \ {m})

\* the spans of S in ascending order of start, then count
RECURSIVE sorted_spans(_)
sorted_spans(S) ==
    IF S = {} THEN <<>>
    ELSE LET m == CHOOSE x \in S : \A y \in S :
                    x.start < y.start \/ (x.start = y.start /\ x.count <= y.count)
         IN  <<m>> \o sorted_spans(S \ {m})

\* the union of the address words of the due sensors
address_words(due) == UNION {Range(sen) : sen \in due}

\* the walk over the sorted addresses S: the span is extended while the next
\* address skips at most allow_gap addresses and the resulting count is within
\* batch_size, and closed otherwise
RECURSIVE walk(_, _, _, _)
walk(S, out, batch_size, allow_gap) ==
    IF S = <<>> THEN out
    ELSE IF out = <<>>
    THEN walk(Tail(S), <<RegisterSpan(Head(S), 1)>>, batch_size, allow_gap)
    ELSE LET cur == out[Len(out)]
             last == cur.start + cur.count - 1
             count == Head(S) - cur.start + 1
         IN  IF Head(S) - last - 1 <= allow_gap /\ count <= batch_size
             THEN walk(Tail(S), [out EXCEPT ![Len(out)] = RegisterSpan(cur.start, count)],
                       batch_size, allow_gap)
             ELSE walk(Tail(S), Append(out, RegisterSpan(Head(S), 1)),
                       batch_size, allow_gap)

\* the span holds every address of the sensor
covers(span, sen) ==
    \A a \in Range(sen) : span.start <= a /\ a < span.start + span.count

\* the full width of a sensor as one span
full_width(sen) == RegisterSpan(sen[1], sen[Len(sen)] - sen[1] + 1)

\* a plausible slip: no overlapping spans for the fragmented sensors
overlapping_spans_none(due, out) == <<>>

\* the overlapping spans: one over the full width of every sensor that no
\* span of the walk covers
overlapping_spans(due, out) ==
    sorted_spans({full_width(sen) :
                    sen \in {s \in due : ~\E k \in DOMAIN out : covers(out[k], s)}})

\* the planner's ordered list of spans
plan_spans(due, batch_size, allow_gap) ==
    LET out == walk(sorted(address_words(due)), <<>>, batch_size, allow_gap)
    IN  out \o overlapping_spans(due, out)

\* the mapping of sensors to spans: each sensor with the first span that
\* covers all its addresses
plan_sensors(due, out) ==
    {[sensor |-> sen, span |-> k] : sen \in due, k \in DOMAIN out} \cap
    {m \in [sensor : due, span : DOMAIN out] :
        /\ covers(out[m.span], m.sensor)
        /\ \A j \in 1..(m.span - 1) : ~covers(out[j], m.sensor)}

\* the address tuples of the sensors: one word, or two words in ascending order
PlanSensors ==
    {<<a>> : a \in 0..MaxPlanAddr}
    \cup {t \in (0..MaxPlanAddr) \X (0..MaxPlanAddr) : t[1] < t[2]}

\* the sets of sensors due in a tick
DueSets == {due \in SUBSET PlanSensors : Cardinality(due) <= MaxDue}

PlanIdle ==
    /\ planner = [due |-> {}, batch_size |-> 1, allow_gap |-> 0, planned |-> FALSE]
    /\ spans = <<>>
    /\ span_sensors = {}

\* a tick with its due sensors, before the planner ran
InitPlanner ==
    /\ planner \in [due : DueSets, batch_size : 1..MaxBatch, allow_gap : 0..MaxGap,
                    planned : {FALSE}]
    /\ spans = <<>>
    /\ span_sensors = {}

\* the planner runs for the tick
PlanReads ==
    /\ ~planner.planned
    /\ planner' = [planner EXCEPT !.planned = TRUE]
    /\ spans' = plan_spans(planner.due, planner.batch_size, planner.allow_gap)
    /\ span_sensors' = plan_sensors(planner.due, spans')
    /\ UNCHANGED notPlan

NextPlanner == PlanReads

(***************************************************************************)
(* The report step of an inverter agent's tick (spec 4.6, steps 4 and 5),  *)
(* for one sensor: the schedule's predicate on (last_published, current),  *)
(* the publish events in flight, and the last-published bookkeeping.       *)
(***************************************************************************)
\* the most publish events waiting for the broker's confirmation
MaxInFlight == 2

Abs(x) == IF x < 0 THEN -x ELSE x

\* a Schedule: change_any, change_by, change_percent (0 for not set)
Schedule(change_any, change_by, change_percent) ==
    [change_any |-> change_any, change_by |-> change_by, change_percent |-> change_percent]

\* a plausible slip: the change_by threshold itself is not enough
report_predicate_strict(sched, last_published, current) ==
    IF sched.change_any THEN current # last_published
    ELSE IF sched.change_by > 0 THEN Abs(current - last_published) > sched.change_by
    ELSE IF sched.change_percent > 0
    THEN \/ last_published = 0
         \/ Abs(current - last_published) * 100 >= sched.change_percent * Abs(last_published)
    ELSE TRUE

\* the schedule's predicate on (last_published, current): the first trigger
\* that is set decides, and with none set the sensor is published at the
\* report period
report_predicate(sched, last_published, current) ==
    IF sched.change_any THEN current # last_published
    ELSE IF sched.change_by > 0 THEN Abs(current - last_published) >= sched.change_by
    ELSE IF sched.change_percent > 0
    THEN \/ last_published = 0
         \/ Abs(current - last_published) * 100 >= sched.change_percent * Abs(last_published)
    ELSE TRUE

\* the values a sensor decodes to
ReportValues == {0, 1, 95, 100, 104, 105}

\* the schedules: each trigger set or not
ReportSchedules == {Schedule(a, b, p) : a \in BOOLEAN, b \in {0, 5}, p \in {0, 5}}

\* what the agent did last: a report tick (with the sensor due or not and
\* whether it was published), a read, a publish confirmed or failed
Did(kind, due, published) == [kind |-> kind, due |-> due, published |-> published]

ReportIdle ==
    /\ reporter = [schedule |-> Schedule(FALSE, 0, 0), current |-> 0, last_published |-> 0]
    /\ publish_queue = <<>>
    /\ report_did = Did("", FALSE, FALSE)

\* a running agent: the sensor has a schedule, a current value and the value
\* last published
InitReport ==
    /\ reporter \in [schedule : ReportSchedules, current : ReportValues,
                     last_published : {0, 100}]
    /\ publish_queue = <<>>
    /\ report_did = Did("", FALSE, FALSE)

\* step 2 of a tick: a read decodes a new current value
ReadCurrent ==
    /\ \E v \in ReportValues : reporter' = [reporter EXCEPT !.current = v]
    /\ report_did' = Did("read", FALSE, FALSE)
    /\ UNCHANGED <<publish_queue, notReport>>

\* steps 4 and 5 of a tick: the sensor, if due, is published when its
\* schedule's predicate holds; the publish event is enqueued
ReportTick ==
    /\ Len(publish_queue) < MaxInFlight
    /\ \E due \in BOOLEAN :
        LET publish == due /\ report_predicate(reporter.schedule,
                                               reporter.last_published, reporter.current)
        IN  /\ publish_queue' = IF publish THEN Append(publish_queue, reporter.current)
                                ELSE publish_queue
            /\ report_did' = Did("tick", due, publish)
    /\ UNCHANGED <<reporter, notReport>>

\* the broker confirmed the oldest publish: the bookkeeping is updated
PublishConfirm ==
    /\ publish_queue # <<>>
    /\ reporter' = [reporter EXCEPT !.last_published = Head(publish_queue)]
    /\ publish_queue' = Tail(publish_queue)
    /\ report_did' = Did("confirm", FALSE, FALSE)
    /\ UNCHANGED notReport

\* the oldest publish failed: the bookkeeping stays
PublishFail ==
    /\ publish_queue # <<>>
    /\ publish_queue' = Tail(publish_queue)
    /\ report_did' = Did("fail", FALSE, FALSE)
    /\ UNCHANGED <<reporter, notReport>>

NextReport ==
    \/ ReadCurrent
    \/ ReportTick
    \/ PublishConfirm
    \/ PublishFail

(***************************************************************************)
(* driver.py: the connection _create_legacy_connection builds for an       *)
(* inverter, and the reads it performs while the web server changes the    *)
(* live-updatable options.                                                 *)
(***************************************************************************)
\* the settings a read of the connection uses: the ones it was built with
read_settings(conn) ==
    [timeout |-> conn.timeout,
     read_sensors_batch_size |-> conn.read_sensors_batch_size,
     allow_gap |-> conn.allow_gap]

\* factory(port=..., server_id=..., timeout=opt.timeout,
\* read_sensors_batch_size=opt.read_sensors_batch_size,
\* allow_gap=opt.read_allow_gap): the values are copied into the connection
legacy_connection(opt) ==
    [timeout |-> opt.timeout,
     read_sensors_batch_size |-> opt.read_sensors_batch_size,
     allow_gap |-> opt.read_allow_gap]

\* no read was performed yet
NoRead == [done |-> FALSE,
           used |-> legacy_connection(WebOptions(<<>>)),
           configured |-> legacy_connection(WebOptions(<<>>)),
           after |-> <<>>]

\* a read: the settings it used, the settings of the options object at that
\* time, and the fields the last live update before it changed
ReadWith(used, opt, after) ==
    [done |-> TRUE, used |-> used, configured |-> legacy_connection(opt), after |-> after]

ConnIdle ==
    /\ suns = legacy_connection(WebOptions(<<>>))
    /\ read_with = NoRead

\* init_driver has built the connection of the inverter from the options
InitConnection ==
    /\ suns = legacy_connection(_options)
    /\ read_with = NoRead

\* the inverter's connection reads sensors
ReadSensors ==
    /\ read_with' = ReadWith(read_settings(suns), _options, response.updated)
    /\ UNCHANGED <<suns, notConn>>

NextLiveRead ==
    \/ UpdateLiveConfig
    \/ ReadSensors

(***************************************************************************)
(* sunsynk/sensors.py: Sensor.update_dependencies and the decodes of a     *)
(* Sensor between its calls.  A float is kept in tenths.                   *)
(***************************************************************************)
PyFloat(tenths) == [t |-> "float", s |-> "", n |-> tenths]

PyBool(b) == [t |-> "bool", s |-> "", n |-> IF b THEN 1 ELSE 0]

\* sensors.get("load_limit") when the key is missing
Missing == [t |-> "missing", s |-> "", n |-> 0]

\* before the first call of update_dependencies
NoCall == [t |-> "nocall", s |-> "", n |-> 0]

\* isinstance(v, (int, float)); bool is a subclass of int
is_number(v) == v.t \in {"int", "float", "bool"}

\* int(v) of a number: a float is truncated towards zero
int_of_number(v) ==
    IF v.t = "float"
    THEN IF v.n < 0 THEN -((-v.n) \div 10) ELSE v.n \div 10
    ELSE v.n

\* a plausible slip: the else branch missing, _load_limit kept
update_dependencies_keeps(s, load_limit) ==
    IF s.zero_export_absolute /\ is_number(load_limit)
    THEN [s EXCEPT !.load_limit = {int_of_number(load_limit)}]
    ELSE s

\* Sensor.update_dependencies(sensors), load_limit = sensors.get("load_limit")
update_dependencies(s, load_limit) ==
    IF s.zero_export_absolute
    THEN IF is_number(load_limit)
         THEN [s EXCEPT !.load_limit = {int_of_number(load_limit)}]
         ELSE [s EXCEPT !.load_limit = {}]
    ELSE s

\* the values of sensors.get("load_limit"): missing, None, ints, floats, a
\* bool and strings
LoadLimitValues ==
    {Missing, JNull, JInt(1), JInt(2), PyFloat(20), PyFloat(25), PyBool(TRUE),
     JStr("2"), JStr("Zero Export")}

\* a Sensor as constructed: _load_limit is None
DependentSensors ==
    {SensorObj("Sensor", n, f, 0, ab, zea, {}, <<>>, FALSE, NoOptions) :
        n \in 1..MaxAddr, f \in Factors, ab \in BOOLEAN, zea \in BOOLEAN}

\* the register tuples read for the sensor: as long as its address tuple
DependentRegs(s) == [1..s.naddr -> {1, 32768, 65534}]

\* the last call on the sensor and the load_limit the last
\* update_dependencies saw
Deps(seen, did) == [seen |-> seen, did |-> did]

DepsIdle == dep_call = Deps(NoCall, "")

InitDeps ==
    /\ sensor \in DependentSensors
    /\ regs \in DependentRegs(sensor)
    /\ result = Pending
    /\ dep_call = Deps(NoCall, "")

\* sensor.update_dependencies(sensors)
UpdateDependencies ==
    /\ \E load_limit \in LoadLimitValues :
        /\ sensor' = update_dependencies(sensor, load_limit)
        /\ dep_call' = Deps(load_limit, "update_dependencies")
    /\ UNCHANGED <<regs, result, notDeps>>

\* registers are read and sensor.reg_to_value(regs) is called
ReadAndDecode ==
    /\ \E r \in DependentRegs(sensor) :
        /\ regs' = r
        /\ result' = Sensor_reg_to_value(sensor, r)
    /\ dep_call' = Deps(dep_call.seen, "reg_to_value")
    /\ UNCHANGED <<sensor, notDeps>>

NextDeps ==
    \/ UpdateDependencies
    \/ ReadAndDecode

(***************************************************************************)
(* sunsynk/sensors.py: Sensor.id, Sensor.__eq__ and Sensor.__hash__, and a *)
(* Python set (or dict) keyed by sensors.                                  *)
(***************************************************************************)
\* a Sensor as far as id, __eq__ and __hash__ look at it
NamedSensor(address, name) == [address |-> address, name |-> name]

\* Sensor.id
Sensor_id(s) == slug(s.name)

\* Sensor.__eq__ for another Sensor
Sensor_eq(a, b) == Sensor_id(a) = Sensor_id(b)

\* Sensor.__hash__: the hash of the tuple (address, name); equal tuples hash
\* equally and the tuples of the model hash differently
Sensor_hash(s) == <<s.address, s.name>>

\* the lookup of sen in a set or dict: an entry with the same hash that is
\* equal to sen
contains(set, sen) ==
    \E e \in set : Sensor_hash(e) = Sensor_hash(sen) /\ Sensor_eq(e, sen)

\* set.add(sen)
add(set, sen) == IF contains(set, sen) THEN set ELSE set \cup {sen}

\* sensors at one-register addresses whose names give the ids "a" and "b"
EqSensors == {NamedSensor(<<a>>, n) : a \in 1..MaxAddr, n \in {"A", "a", "B"}}

\* a membership test: the sensor, the set it was looked up in, the answer
Probe(did, sen, set, found) == [did |-> did, sen |-> sen, set |-> set, found |-> found]

NoProbe == Probe(FALSE, NamedSensor(<<0>>, ""), {}, FALSE)

EqIdle == affects = {} /\ probe = NoProbe

InitEq ==
    /\ affects = {}
    /\ probe = NoProbe

\* self[dep].affects.add(sensor)
AffectsAdd ==
    /\ \E sen \in EqSensors : affects' = add(affects, sen)
    /\ UNCHANGED <<probe, notEq>>

\* `sen in SOPT`, `sensor in self`
Contains ==
    /\ \E sen \in EqSensors : probe' = Probe(TRUE, sen, affects, contains(affects, sen))
    /\ UNCHANGED <<affects, notEq>>

NextEq ==
    \/ AffectsAdd
    \/ Contains

(***************************************************************************)
(* web_gui/server.py: get_config and export_config, run on two options     *)
(* objects that differ in the MQTT password only.                          *)
(***************************************************************************)
\* the JSON body of a response
Shown(status, body) == [status |-> status, body |-> body]

\* a plausible slip: the password itself in place of the mask
get_config_plain(opt) ==
    Shown(200,
        [mqtt |-> [host |-> opt.mqtt_host, port |-> opt.mqtt_port,
                   username |-> opt.mqtt_username, password |-> opt.mqtt_password],
         driver |-> opt.driver, timeout |-> opt.timeout, debug |-> opt.debug,
         manufacturer |-> opt.manufacturer,
         sensor_definitions |-> opt.sensor_definitions,
         number_entity_mode |-> opt.number_entity_mode,
         read_sensors_batch_size |-> opt.read_sensors_batch_size,
         read_allow_gap |-> opt.read_allow_gap,
         sensors |-> opt.sensors,
         sensors_first_inverter |-> opt.sensors_first_inverter,
         inverters |-> [i \in 1..Len(opt.inverters) |->
                            [index |-> i - 1,
                             serial_nr |-> opt.inverters[i].serial_nr,
                             ha_prefix |-> opt.inverters[i].ha_prefix,
                             modbus_id |-> opt.inverters[i].modbus_id,
                             port |-> opt.inverters[i].port,
                             dongle_serial_number |->
                                 opt.inverters[i].dongle_serial_number]],
         schedules |-> [i \in 1..Len(opt.schedules) |->
                            [index |-> i - 1, key |-> opt.schedules[i]]]])

\* get_config: the body of GET /api/config (of a schedule, its index and key)
get_config(opt) ==
    Shown(200,
        [mqtt |-> [host |-> opt.mqtt_host, port |-> opt.mqtt_port,
                   username |-> opt.mqtt_username,
                   password |-> IF opt.mqtt_password # "" THEN "***" ELSE ""],
         driver |-> opt.driver, timeout |-> opt.timeout, debug |-> opt.debug,
         manufacturer |-> opt.manufacturer,
         sensor_definitions |-> opt.sensor_definitions,
         number_entity_mode |-> opt.number_entity_mode,
         read_sensors_batch_size |-> opt.read_sensors_batch_size,
         read_allow_gap |-> opt.read_allow_gap,
         sensors |-> opt.sensors,
         sensors_first_inverter |-> opt.sensors_first_inverter,
         inverters |-> [i \in 1..Len(opt.inverters) |->
                            [index |-> i - 1,
                             serial_nr |-> opt.inverters[i].serial_nr,
                             ha_prefix |-> opt.inverters[i].ha_prefix,
                             modbus_id |-> opt.inverters[i].modbus_id,
                             port |-> opt.inverters[i].port,
                             dongle_serial_number |->
                                 opt.inverters[i].dongle_serial_number]],
         schedules |-> [i \in 1..Len(opt.schedules) |->
                            [index |-> i - 1, key |-> opt.schedules[i]]]])

\* export_config: the body of GET /api/config/export
export_config(opt) ==
    Shown(200,
        [MQTT_HOST |-> opt.mqtt_host, MQTT_PORT |-> opt.mqtt_port,
         MQTT_USERNAME |-> opt.mqtt_username,
         DRIVER |-> opt.driver, TIMEOUT |-> opt.timeout, DEBUG |-> opt.debug,
         MANUFACTURER |-> opt.manufacturer,
         SENSOR_DEFINITIONS |-> opt.sensor_definitions,
         NUMBER_ENTITY_MODE |-> opt.number_entity_mode,
         READ_SENSORS_BATCH_SIZE |-> opt.read_sensors_batch_size,
         READ_ALLOW_GAP |-> opt.read_allow_gap,
         SENSORS |-> opt.sensors,
         SENSORS_FIRST_INVERTER |-> opt.sensors_first_inverter,
         INVERTERS |-> [i \in 1..Len(opt.inverters) |->
                            [SERIAL_NR |-> opt.inverters[i].serial_nr,
                             HA_PREFIX |-> opt.inverters[i].ha_prefix,
                             MODBUS_ID |-> opt.inverters[i].modbus_id,
                             PORT |-> opt.inverters[i].port,
                             DONGLE_SERIAL_NUMBER |->
                                 opt.inverters[i].dongle_serial_number]],
         SCHEDULES |-> [i \in 1..Len(opt.schedules) |-> [KEY |-> opt.schedules[i]]]])

\* the passwords of the model: none and two that differ
Passwords == {"", "secret", "hunter2"}

\* the options the GUI is started with
ConfigOptions ==
    {[WebOptions(<<ConfiguredInverter("inv1")>>) EXCEPT
        !.mqtt_host = h, !.mqtt_username = u, !.mqtt_password = p, !.debug = d] :
            h \in {"core-mosquitto", "broker"}, u \in {"", "ha"}, p \in Passwords,
            d \in {0, 1}}

NoTwin == WebOptions(<<>>)

TwinIdle == twin = NoTwin /\ response_twin = NoResponse

InitConfig ==
    /\ _options \in ConfigOptions
    /\ twin \in {[_options EXCEPT !.mqtt_password = p] : p \in Passwords}
    /\ request = NoRequest
    /\ response = NoResponse
    /\ response_twin = NoResponse
    /\ LoadIdle

\* GET /api/config, on both options objects
GetConfig ==
    /\ request' = Request("get_config", "", EmptyBody, FALSE)
    /\ response' = get_config(_options)
    /\ response_twin' = get_config(twin)
    /\ UNCHANGED <<_options, twin, notConfig>>

\* GET /api/config/export, on both options objects
ExportConfig ==
    /\ request' = Request("export_config", "", EmptyBody, FALSE)
    /\ response' = export_config(_options)
    /\ response_twin' = export_config(twin)
    /\ UNCHANGED <<_options, twin, notConfig>>

NextConfig ==
    \/ GetConfig
    \/ ExportConfig

(***************************************************************************)
(* The specifications.                                                     *)
(***************************************************************************)
Init == InitMain /\ CodecIdle /\ DiscIdle /\ WebIdle /\ SensIdle /\ PlanIdle /\ ReportIdle /\ ConnIdle /\ DepsIdle /\ EqIdle /\ TwinIdle

Next == NextMain

Spec == Init /\ [][Next]_vars

InitDecode == InitCodec /\ DiscIdle /\ MainIdle /\ WebIdle /\ SensIdle /\ PlanIdle /\ ReportIdle /\ ConnIdle /\ DepsIdle /\ EqIdle /\ TwinIdle

SpecDecode == InitDecode /\ [][NextCodec]_vars

InitDiscovery == InitDisc /\ CodecIdle /\ MainRunning /\ WebIdle /\ SensIdle /\ PlanIdle /\ ReportIdle /\ ConnIdle /\ DepsIdle /\ EqIdle /\ TwinIdle

InitInverters == InitWebInverters /\ CodecIdle /\ DiscIdle /\ MainRunning /\ SensIdle /\ PlanIdle /\ ReportIdle /\ ConnIdle /\ DepsIdle /\ EqIdle /\ TwinIdle

SpecInverters == InitInverters /\ [][NextInverters]_vars

InitLive == InitWebLive /\ CodecIdle /\ DiscIdle /\ MainRunning /\ SensIdle /\ PlanIdle /\ ReportIdle /\ ConnIdle /\ DepsIdle /\ EqIdle /\ TwinIdle

SpecLive == InitLive /\ [][NextLive]_vars

InitLoad == InitLoadOptions /\ LoadIdle /\ CodecIdle /\ DiscIdle /\ MainIdle /\ SensIdle /\ PlanIdle /\ ReportIdle /\ ConnIdle /\ DepsIdle /\ EqIdle /\ TwinIdle

SpecLoad == InitLoad /\ [][NextLoad]_vars

InitSensorsCalled ==
    InitSensorOptions /\ InitSensorNames /\ CodecIdle /\ DiscIdle /\ MainAtInitSensors /\ PlanIdle /\ ReportIdle /\ ConnIdle /\ DepsIdle /\ EqIdle /\ TwinIdle

\* init_sensors is synchronous code: once called it runs on until it returns
SpecSensors == InitSensorsCalled /\ [][NextSensors]_vars /\ WF_vars(NextSensors)

InitPlan ==
    InitPlanner /\ CodecIdle /\ DiscIdle /\ MainRunning /\ WebIdle /\ SensIdle /\ ReportIdle /\ ConnIdle /\ DepsIdle /\ EqIdle /\ TwinIdle

SpecPlanner == InitPlan /\ [][NextPlanner]_vars

InitReporting ==
    InitReport /\ CodecIdle /\ DiscIdle /\ MainRunning /\ WebIdle /\ SensIdle /\ PlanIdle /\ ConnIdle /\ DepsIdle /\ EqIdle /\ TwinIdle

SpecReport == InitReporting /\ [][NextReport]_vars

InitLiveRead ==
    InitWebLive /\ InitConnection /\ CodecIdle /\ DiscIdle /\ MainRunning /\ SensIdle
    /\ PlanIdle /\ ReportIdle /\ DepsIdle /\ EqIdle /\ TwinIdle

SpecLiveRead == InitLiveRead /\ [][NextLiveRead]_vars

InitDependencies ==
    InitDeps /\ DiscIdle /\ MainIdle /\ WebIdle /\ SensIdle /\ PlanIdle /\ ReportIdle
    /\ ConnIdle /\ EqIdle /\ TwinIdle

SpecDeps == InitDependencies /\ [][NextDeps]_vars

SpecDisc == InitDiscovery /\ [][NextDisc]_vars

InitSensorEq ==
    InitEq /\ CodecIdle /\ DiscIdle /\ MainRunning /\ WebIdle /\ SensIdle /\ PlanIdle
    /\ ReportIdle /\ ConnIdle /\ DepsIdle /\ TwinIdle

SpecSensorEq == InitSensorEq /\ [][NextEq]_vars

InitConfigShown ==
    InitConfig /\ CodecIdle /\ DiscIdle /\ MainRunning /\ SensIdle /\ PlanIdle
    /\ ReportIdle /\ ConnIdle /\ DepsIdle /\ EqIdle

SpecConfig == InitConfigShown /\ [][NextConfig]_vars

(***************************************************************************)
(* Properties of the register codec (checked under SpecDecode).            *)
(***************************************************************************)
Decoded(class) == sensor.class = class /\ result # Pending

\* the value of a number whose magnitude is below 2^31
IntOf(r) == r.hi * W16 + r.lo

\* bit 16 * len(regs) - 1 of the combined registers: the top bit of the last word
HighBit(r) == Len(r) >= 1 /\ Bit(r[Len(r)], 15) = 1

Negative(r) == r.kind = "num" /\ r.hi < 0

\* the zero-export flip is active: zero_export_absolute with _load_limit == 2
ZeroExportActive(s) == s.zero_export_absolute /\ s.load_limit = {2}

\* C3 as stated: a Sensor with factor < 0 decodes registers whose combined
\* highest bit is set to a negative value, whatever its bitmask, absolute and
\* zero_export_absolute / load_limit are (stated here for the register tuples
\* of the sensor's own width, where it already fails).
C3_NegativeForAnyAttributes ==
    (/\ Decoded("Sensor") /\ sensor.factor.neg /\ HighBit(regs)
     /\ Len(regs) = sensor.naddr /\ Len(regs) <= 2)
    => Negative(result)

\* C3 as amended: a Sensor with factor < 0, absolute unset, the zero-export
\* flip inactive and a bitmask that is 0 or keeps bit 15, decodes one or two
\* registers whose combined highest bit is set to a negative value; with
\* absolute set or the zero-export flip active the value is never negative.
C3_NegativeWhenSigned ==
    /\ (/\ Decoded("Sensor") /\ sensor.factor.neg /\ HighBit(regs)
        /\ Len(regs) <= 2
        /\ ~sensor.absolute /\ ~ZeroExportActive(sensor)
        /\ (sensor.bitmask = 0 \/ Bit(sensor.bitmask, 15) = 1))
       => Negative(result)
    /\ (Decoded("Sensor") /\ (sensor.absolute \/ ZeroExportActive(sensor)))
       => ~Negative(result)

C3_Witness ==
    /\ Decoded("Sensor") /\ sensor.factor = [neg |-> TRUE, den |-> 10]
    /\ regs = <<65534>> /\ sensor.bitmask = 0 /\ ~sensor.absolute
    /\ sensor.zero_export_absolute /\ sensor.load_limit = {1}
    /\ result = NumResult(Num(-1, 65534, 10))

\* a Sensor with no bitmask, absolute unset and the zero-export flip inactive
PlainSensor(neg) ==
    /\ Decoded("Sensor") /\ sensor.naddr = 2 /\ Len(regs) = 2
    /\ sensor.factor = [neg |-> neg, den |-> 1]
    /\ sensor.bitmask = 0 /\ ~sensor.absolute /\ ~ZeroExportActive(sensor)

\* C4: a two-register Sensor combines regs[0] + regs[1] * 2^16, low word first,
\* and a negative factor applies two's complement to the combined 32-bit value:
\* factor -1 decodes (0x8000, 0) to 32768 and (0, 0x8000) to -2147483648;
\* factor 1 decodes (1, 2) to 131073.
C4_CombinedTwosComplement ==
    /\ PlainSensor(FALSE) =>
            result = NumResult(Num(regs[2], regs[1], 1))
    /\ PlainSensor(TRUE) =>
            result = NumResult(Num(IF regs[2] >= 32768 THEN regs[2] - W16 ELSE regs[2],
                                   regs[1], 1))
    /\ (PlainSensor(TRUE) /\ regs = <<32768, 0>>) => IntOf(result) = 32768
    /\ (PlainSensor(TRUE) /\ regs = <<0, 32768>>) => IntOf(result) = -2147483647 - 1
    /\ (PlainSensor(FALSE) /\ regs = <<1, 2>>) => IntOf(result) = 131073

C4_Witness ==
    /\ PlainSensor(TRUE) /\ regs = <<0, 32768>>
    /\ result.kind = "num" /\ result.hi = -32768 /\ result.lo = 0

\* C5: reg_to_value of a Sensor or MathSensor returns None, and raises
\* nothing, whenever the number of registers differs from the number of
\* addresses of the sensor.
C5_NoneOnWidthMismatch ==
    (/\ sensor.class \in {"Sensor", "MathSensor"} /\ result # Pending
     /\ Len(regs) # sensor.naddr)
    => result = None

\* the label map of an enum/text sensor and the register value it looks up
LabelMap(s) ==
    CASE s.class = "SDStatusSensor" -> SDStatusLabels
      [] s.class = "InverterStateSensor" -> InverterStateLabels
      [] OTHER -> s.options

LookedUp(s, r) == masked(s, r)[1]

EnumClasses == {"EnumSensor", "SDStatusSensor", "InverterStateSensor"}

EnumDecoded(classes) ==
    sensor.class \in classes /\ result # Pending /\ Len(regs) >= 1

\* C6 as stated: EnumSensor, SDStatusSensor and InverterStateSensor decode a
\* value n that is no key of the label map to 'unknown <n>' and a key to its label.
C6_UnknownForEveryVariant ==
    EnumDecoded(EnumClasses) =>
        LET n == LookedUp(sensor, regs) IN
        IF n \in DOMAIN LabelMap(sensor)
        THEN result = TextResult(LabelMap(sensor)[n])
        ELSE result = TextResult("unknown " \o ToString(n))

\* C6 as amended: SDStatusSensor and InverterStateSensor decode a value n that
\* is no key of their label map to 'unknown <n>'; EnumSensor decodes a
\* (bit-masked) value that is no key of its options to None; all three decode
\* a key to its label.
C6_UnknownOrNone ==
    EnumDecoded(EnumClasses) =>
        LET n == LookedUp(sensor, regs) IN
        IF n \in DOMAIN LabelMap(sensor)
        THEN result = TextResult(LabelMap(sensor)[n])
        ELSE IF sensor.class = "EnumSensor"
        THEN result = None
        ELSE result = TextResult("unknown " \o ToString(n))

C6_Witness ==
    /\ EnumDecoded({"EnumSensor"}) /\ sensor.bitmask = 3 /\ regs[1] = 7
    /\ 3 \notin DOMAIN sensor.options
    /\ result = None

RECURSIVE ExpectedFaults(_, _, _)
\* one entry per set bit b (0-based, counted across the words), from bit b on:
\* F(b+1) with the description the table holds for fault number b + 1
ExpectedFaults(r, faults, b) ==
    IF b >= 16 * Len(r) THEN <<>>
    ELSE IF Bit(r[(b \div 16) + 1], b % 16) = 1
    THEN <<FaultMsg(b + 1, GetOr(faults, b + 1))>> \o ExpectedFaults(r, faults, b + 1)
    ELSE ExpectedFaults(r, faults, b + 1)

\* C7: FaultSensor and HVFaultSensor emit one entry per set bit in ascending
\* order, joined by ', '; the entry of bit b is numbered F(b+1) and carries the
\* description the fault table holds for key b + 1; no bit set gives ''.
C7_FaultNumberAndDescription ==
    /\ Decoded("FaultSensor") =>
            result = TextResult(Join(ExpectedFaults(regs, FaultSensor_faults, 0)))
    /\ Decoded("HVFaultSensor") =>
            result = TextResult(Join(ExpectedFaults(regs, HVFaultSensor_faults, 0)))

(***************************************************************************)
(* Properties of the discovery-info queue (checked under SpecDisc).        *)
(***************************************************************************)
\* C1: no discovery-info update is lost: an entry leaves
\* HASS_DISCOVERY_INFO_UPDATE_QUEUE only after a rebuild and publish that began
\* after the entry was (last) added, in every interleaving of sensor_on_update
\* with the suspended callback_discovery_info.
C1_NoUpdateLost ==
    [][\A s \in HASS_DISCOVERY_INFO_UPDATE_QUEUE :
            s \notin HASS_DISCOVERY_INFO_UPDATE_QUEUE' => s \notin queued_since_rebuild]_vars

(***************************************************************************)
(* Properties of main_loop (checked under Spec).                           *)
(***************************************************************************)
Ended == pc \in {"done", "raised"}

Happened(e) == \E i \in DOMAIN events : events[i] = e

\* C2: a configuration with a duplicate ha_prefix, a duplicate connector name
\* or a reference to an undefined connector is rejected before init_driver
\* creates an agent and before any inverter is connected.
C2_ConfigErrorsFatal ==
    init_options(OPT) # "ok" =>
        /\ STATE_agents = <<>>
        /\ connected = {}
        /\ pc \in {"start_web_server", "init_driver", "done"}

InvalidDriver == OPT.driver \notin ValidDrivers

\* main_loop has not got past init_driver, or it has returned 1 with nothing
\* connected, nothing published and run_callbacks not started
StoppedWithOne ==
    \/ pc \in {"start_web_server", "init_driver"}
    \/ /\ pc = "done" /\ exit_code = {1}
       /\ connected = {} /\ discovered = {} /\ ~Happened("run_callbacks")

\* C8 as stated: with an invalid top-level driver main_loop returns 1 before
\* any connect, publish or run_callbacks, whether the inverters use a named
\* connector or a direct port.
C8_InvalidDriverAlwaysOne == InvalidDriver => StoppedWithOne

SomeDirectPort == \E i \in DOMAIN OPT.inverters : OPT.inverters[i].connector = ""

ConnectorsDefined ==
    \A i \in DOMAIN OPT.inverters :
        OPT.inverters[i].connector \in {""} \cup Range(OPT.connectors)

\* C8 as amended: with an invalid top-level driver and at least one inverter on
\* a direct port (every connector the inverters name being defined) main_loop
\* returns 1 before any connect, publish or run_callbacks; when every inverter
\* uses a defined named connector the driver is not examined and main_loop
\* never returns 1.
C8_InvalidDriverOneIfDirectPort ==
    /\ (InvalidDriver /\ SomeDirectPort /\ ConnectorsDefined) => StoppedWithOne
    /\ (~SomeDirectPort /\ ConnectorsDefined) => exit_code # {1}

C8_Witness ==
    /\ InvalidDriver /\ SomeDirectPort /\ ConnectorsDefined
    /\ OPT.inverters[1].connector # ""
    /\ pc = "done" /\ exit_code = {1} /\ Len(STATE_agents) = 1

\* C9: when connect or discovery of an inverter fails at startup main_loop
\* ends with exit code 2, and the 30-second grace delay announced in the log
\* takes place between that log line and the return.
C9_GraceDelayBeforeExit ==
    (Ended /\ Happened("critical: terminate in 30 seconds")) =>
        /\ exit_code = {2}
        /\ \E i, j \in DOMAIN events :
            /\ i < j
            /\ events[i] = "critical: terminate in 30 seconds"
            /\ events[j] = "sleep 30"

\* C10: on every path by which main_loop ends after the web server was
\* started, stop_web_server is called before main_loop ends and is the last
\* shutdown action.
C10_StopWebServerLast ==
    (Ended /\ Happened("web_started")) => events[Len(events)] = "stop_web_server"

(***************************************************************************)
(* Properties of the web handlers (checked under SpecInverters, SpecLive). *)
(***************************************************************************)
\* ha_prefix as it is compared: lower-cased and stripped
Norm(s) == strip(lower(s))

DistinctPrefixes(inverters) ==
    \A i, j \in DOMAIN inverters :
        i # j => Norm(inverters[i].ha_prefix) # Norm(inverters[j].ha_prefix)

SendsPrefix(req) == "ha_prefix" \in DOMAIN req.data /\ req.data["ha_prefix"].t = "str"

\* handled on the list `inverters`, the request req would leave two inverters
\* with the same ha_prefix
WouldDuplicate(inverters, req) ==
    /\ SendsPrefix(req)
    /\ \/ /\ req.handler = "add_inverter"
          /\ \E i \in DOMAIN inverters :
                Norm(inverters[i].ha_prefix) = Norm(req.data["ha_prefix"].s)
       \/ /\ req.handler = "update_inverter"
          /\ int_str(req.index).err = ""
          /\ int_str(req.index).n + 1 \in DOMAIN inverters
          /\ \E i \in DOMAIN inverters :
                /\ i # int_str(req.index).n + 1
                /\ Norm(inverters[i].ha_prefix) = Norm(req.data["ha_prefix"].s)

\* C11: starting from pairwise distinct ha_prefix values, after any sequence
\* of add_inverter, update_inverter and delete_inverter requests the ha_prefix
\* values of the configured inverters are pairwise distinct (compared
\* lower-cased and stripped), and a request that would create a duplicate is
\* answered with status 400 and leaves the inverter list and every inverter
\* field unchanged.
C11_PrefixStaysUnique ==
    /\ []DistinctPrefixes(_options.inverters)
    /\ [][(~request'.awaiting /\ WouldDuplicate(_options.inverters, request')) =>
            /\ response'.status = 400
            /\ _options'.inverters = _options.inverters]_vars

C11_Witness ==
    /\ request = Request("update_inverter", "0", ("ha_prefix" :> JStr(" Inv2 ")), FALSE)
    /\ response = json_response(400, "ha_prefix already exists")
    /\ Len(_options.inverters) = 2
    /\ _options.inverters[1].ha_prefix = "inv1"
    /\ _options.inverters[2].ha_prefix = "inv2"

LiveFields == {"debug", "timeout", "read_sensors_batch_size", "read_allow_gap"}

\* C12: a POST to /api/config/live changes at most debug, timeout,
\* read_sensors_batch_size and read_allow_gap: every other field of the
\* options is the same after the request, whatever the body.
C12_OnlyLiveFieldsChange ==
    [][\A f \in DOMAIN _options : f \notin LiveFields => _options'[f] = _options[f]]_vars

C12_Witness ==
    /\ request.handler = "update_live_config"
    /\ request.data.kind = "object"
    /\ DOMAIN request.data.members = {"debug", "driver"}
    /\ request.data.members["driver"] = JStr("solarman")
    /\ response.updated = <<"debug">>
    /\ _options.debug = 5
    /\ _options.driver = "pymodbus"

(***************************************************************************)
(* Properties of init_sensors (checked under SpecSensors).                 *)
(***************************************************************************)
SensorsDone == sopt_pc = "done" /\ stack = <<>>

AllSensors == Range(SensorIds)

\* d is one of s.dependencies, s an RWSensor
DependsOn(s, d) == s \in DEFS_sensors.rw /\ d \in Range(DEFS_sensors.dependencies[s])

RECURSIVE ReachesIn(_, _, _)
\* from s the sensor d is reached along at most n dependency edges
ReachesIn(n, s, d) ==
    \/ s = d
    \/ n > 0 /\ \E m \in AllSensors : DependsOn(s, m) /\ ReachesIn(n - 1, m, d)

Reaches(s, d) == ReachesIn(Cardinality(AllSensors), s, d)

\* the graph is the cycle a -> b -> a and it is traversed from a only
TwoCycleFromA ==
    /\ DEFS_sensors.dependencies["a"] = <<"b">>
    /\ DEFS_sensors.dependencies["b"] = <<"a">>
    /\ _options.sensors = <<"a">>
    /\ _options.sensors_first_inverter = <<>>

\* C13 as stated: for the cycle a -> b -> a traversed from a, the cycle is
\* logged and the back-edge b -> a leaves no affects entry: SOPT[b].affects
\* contains a and SOPT[a].affects does not contain b.
C13_BackEdgeLeavesNoAffects ==
    (SensorsDone /\ TwoCycleFromA) =>
        /\ "a" \in warnings
        /\ "a" \in SOPT["b"].affects
        /\ "b" \notin SOPT["a"].affects

\* the step is the return of a call that found its sensor on the path
CycleDetected == stack # <<>> /\ ~Top.entered /\ Top.sensor \in Top.path /\ stack' # stack

\* C13 as amended: a dependency that is already on the path is logged and not
\* descended into again (no sensor is entered twice on the stack), but its
\* affects entry is still recorded when both sensors are in SOPT; for the
\* cycle a -> b -> a traversed from a, SOPT[b].affects contains a and
\* SOPT[a].affects contains b.
C13_BackEdgeKeepsAffects ==
    /\ [](\A i, j \in DOMAIN stack :
            (i < j /\ stack[i].entered /\ stack[j].entered) =>
                stack[i].sensor # stack[j].sensor)
    /\ []((SensorsDone /\ TwoCycleFromA) =>
            /\ "a" \in warnings
            /\ "a" \in SOPT["b"].affects
            /\ "b" \in SOPT["a"].affects)
    /\ [][CycleDetected =>
            /\ Top.sensor \in warnings'
            /\ Len(stack') = Len(stack) - 1
            /\ (Top.sensor \in DOMAIN SOPT /\ stack[Len(stack) - 1].sensor \in DOMAIN SOPT)
                => stack[Len(stack) - 1].sensor \in SOPT'[Top.sensor].affects]_vars

C13_Witness ==
    /\ SensorsDone /\ TwoCycleFromA
    /\ warnings = {"a"}
    /\ SOPT["a"].affects = {"b"}
    /\ SOPT["b"].affects = {"a"}

\* s lies on a cycle the traversal ran into
OnReachedCycle(s) == \E w \in warnings : Reaches(w, s) /\ Reaches(s, w)

\* C14: init_sensors terminates for every dependency graph, self-loops,
\* two-cycles and longer cycles included; the recursion of
\* _add_sensor_with_deps is never deeper than the number of distinct sensors
\* plus one; every sensor on a reached cycle ends up in the startup set and
\* in SOPT.
C14_TerminatesOnCycles ==
    /\ <>SensorsDone
    /\ [](Len(stack) <= Cardinality(AllSensors) + 1)
    /\ [](SensorsDone =>
            \A s \in AllSensors :
                OnReachedCycle(s) => (s \in startup /\ s \in DOMAIN SOPT))

C14_Witness ==
    /\ SensorsDone
    /\ DEFS_sensors.dependencies["a"] = <<"b">>
    /\ DEFS_sensors.dependencies["b"] = <<"c">>
    /\ DEFS_sensors.dependencies["c"] = <<"a">>
    /\ warnings # {}
    /\ {"a", "b", "c"} \subseteq startup
    /\ {"a", "b", "c"} \subseteq DOMAIN SOPT

\* C15: after init_sensors, for sensors d and s that both have an entry in
\* SOPT, s is in SOPT[d].affects exactly when s is a writable sensor and d is
\* one of its dependencies.
C15_AffectsIsInverse ==
    SensorsDone =>
        \A d \in DOMAIN SOPT : \A s \in DOMAIN SOPT :
            s \in SOPT[d].affects <=> DependsOn(s, d)

C15_Witness ==
    /\ SensorsDone
    /\ DEFS_sensors.dependencies["a"] = <<"b", "rated_power">>
    /\ DEFS_sensors.dependencies["b"] = <<"c">>
    /\ {"a", "b", "c"} \subseteq DOMAIN SOPT
    /\ SOPT["rated_power"].affects = {"a"}
    /\ SOPT["c"].affects = {"b"}
    /\ SOPT["a"].affects = {}

\* the sensors a list of configured names resolves to: named (by slug), member
\* of a named group, or any sensor when "all" is named
ResolvedFrom(names) ==
    {id \in AllSensors :
        \E k \in DOMAIN names :
            /\ ~HasColon(names[k])
            /\ \/ slug(names[k]) = id
               \/ slug(names[k]) = "all"
               \/ /\ slug(names[k]) \in DOMAIN SENSOR_GROUPS
                  /\ \E m \in DOMAIN SENSOR_GROUPS[slug(names[k])] :
                        slug(SENSOR_GROUPS[slug(names[k])][m]) = id}

Configured == ResolvedFrom(_options.sensors) \cup ResolvedFrom(_options.sensors_first_inverter)

\* s is in SOPT only because a configured sensor depends on it
OnlyDependency(s) ==
    /\ s \in DOMAIN SOPT
    /\ s \notin Configured
    /\ ~is_in_group(s)
    /\ s \notin {"rated_power", "serial"}
    /\ \E c \in Configured : Reaches(c, s)

\* C16: after init_sensors a sensor that is in SOPT only because a configured
\* sensor depends on it (not named, not reached through a configured group,
\* in no group) has visible = false, and every transitive dependency of a
\* configured sensor has an entry in SOPT.
C16_DependenciesHidden ==
    SensorsDone =>
        /\ \A s \in AllSensors : OnlyDependency(s) => ~SOPT[s].visible
        /\ \A c \in Configured : \A s \in AllSensors : Reaches(c, s) => s \in DOMAIN SOPT

\* C17: after init_sensors every sensor resolved from sensors_first_inverter
\* that is not also named in sensors has first = true and visible = true,
\* also when it was in SOPT before as a startup sensor or as a dependency; no
\* sensor absent from sensors_first_inverter has first = true.
C17_FirstInverterFlag ==
    SensorsDone =>
        /\ \A s \in ResolvedFrom(_options.sensors_first_inverter) :
                s \notin ResolvedFrom(_options.sensors) =>
                    (s \in DOMAIN SOPT /\ SOPT[s].first /\ SOPT[s].visible)
        /\ \A s \in DOMAIN SOPT :
                SOPT[s].first => s \in ResolvedFrom(_options.sensors_first_inverter)

\* the ValueErrors of ConnectorOptions
ValueErrors ==
    {"ValueError: Invalid connector type", "ValueError: Invalid driver",
     "ValueError: Solarman connector requires dongle_serial"}

\* the validation of C18, in the claim's words, on the fields c
PassesValidation(c) ==
    /\ c.type \in {"tcp", "serial", "solarman"}
    /\ c.driver \in {"pymodbus", "umodbus", "solarman"}
    /\ ~(c.type = "solarman" /\ c.dongle_serial = 0)

\* the fields a connector dict asks for, an unreadable dongle_serial as 0
AskedFields(item) ==
    ConnectorFields(item["name"].s, item["type"].s,
                    IF "driver" \in DOMAIN item THEN item["driver"].s ELSE "pymodbus",
                    IF "dongle_serial" \in DOMAIN item /\ int(item["dongle_serial"]).err = ""
                    THEN int(item["dongle_serial"]).n ELSE 0)

\* the key connectors is a list and every dict of it passes the validation
EveryConnectorPasses(value) ==
    /\ value.connectors.present
    /\ value.connectors.is_list
    /\ \A k \in DOMAIN value.connectors.items :
        PassesValidation(AskedFields(value.connectors.items[k]))

\* C18: constructing a ConnectorOptions raises ValueError exactly when type is
\* not tcp, serial or solarman, or driver is not pymodbus, umodbus or solarman,
\* or type is solarman and dongle_serial is 0, and returns in every other case;
\* a load_dict whose connectors do not all pass this validation raises and
\* leaves Options.connectors as it was, and a load_dict that stores connectors
\* stores the structured list of the ones given, all of which passed.
C18_ConnectorValidation ==
    /\ [](load_call.op = "ConnectorOptions" =>
            IF PassesValidation(load_call.arguments) THEN load_raised = ""
            ELSE load_raised \in ValueErrors)
    /\ [][load_call'.op = "load_dict" =>
            /\ (load_call'.value.connectors.present
                /\ ~EveryConnectorPasses(load_call'.value)) =>
                    /\ load_raised' # ""
                    /\ _options'.connectors = _options.connectors
            /\ (load_call'.value.connectors.present /\ load_raised' = "") =>
                    /\ EveryConnectorPasses(load_call'.value)
                    /\ _options'.connectors =
                        [k \in DOMAIN load_call'.value.connectors.items |->
                            AskedFields(load_call'.value.connectors.items[k])]]_vars

\* C18 witness: a load_dict of two connectors, the first passing and the
\* second solarman without a dongle_serial, was refused
C18_Witness ==
    /\ load_call.op = "load_dict"
    /\ load_raised = "StructureError"
    /\ Len(load_call.value.connectors.items) = 2
    /\ PassesValidation(AskedFields(load_call.value.connectors.items[1]))
    /\ LET c == AskedFields(load_call.value.connectors.items[2])
       IN c.type = "solarman" /\ c.dongle_serial = 0

\* a load_dict of two connectors, one of them solarman with a dongle_serial,
\* stored both
StoredTwoConnectors ==
    /\ load_call.op = "load_dict"
    /\ load_raised = ""
    /\ Len(_options.connectors) = 2
    /\ \E k \in 1..2 : /\ _options.connectors[k].type = "solarman"
                       /\ _options.connectors[k].dongle_serial = 5

\* the spans a due sensor is associated with
SpansOf(sen) == {m.span : m \in {x \in span_sensors : x.sensor = sen}}

\* the sensor's words lie in more than one span of the walk
Fragmented(sen) ==
    LET out == walk(sorted(address_words(planner.due)), <<>>,
                    planner.batch_size, planner.allow_gap)
    IN  ~\E k \in DOMAIN out : covers(out[k], sen)

C20_SpanWithinBatch ==
    planner.planned =>
        /\ \A k \in DOMAIN spans : spans[k].count <= planner.batch_size
        /\ planner.batch_size = 1 => \A k \in DOMAIN spans : spans[k].count = 1

\* the only trigger the schedule sets
OnlyChangeBy(sched) == ~sched.change_any /\ sched.change_by > 0 /\ sched.change_percent = 0
OnlyChangePercent(sched) == ~sched.change_any /\ sched.change_by = 0 /\ sched.change_percent > 0
NoThreshold(sched) == ~sched.change_any /\ sched.change_by = 0 /\ sched.change_percent = 0

\* a report tick with the sensor due has just run
DueTicked == report_did'.kind = "tick" /\ report_did'.due

\* C21: at a report tick a due sensor is published (its publish event with the
\* current value enqueued) exactly when its schedule's predicate holds on
\* (last_published, current): for a schedule with change_by as its trigger iff
\* |current - last_published| >= change_by (last 100, change_by 5: 104 is not
\* published, 105 is), for one with change_percent as its trigger and
\* last_published = 0 always, for one with no threshold always; and
\* last_published changes only in the step that confirms a publish, to the
\* value that publish carried.
C21_PublishIffPredicate ==
    /\ [][DueTicked =>
            /\ report_did'.published <=>
                    publish_queue' = Append(publish_queue, reporter.current)
            /\ ~report_did'.published => publish_queue' = publish_queue
            /\ OnlyChangeBy(reporter.schedule) =>
                (report_did'.published <=>
                    Abs(reporter.current - reporter.last_published)
                        >= reporter.schedule.change_by)
            /\ (OnlyChangeBy(reporter.schedule) /\ reporter.schedule.change_by = 5
                /\ reporter.last_published = 100) =>
                /\ reporter.current = 104 => ~report_did'.published
                /\ reporter.current = 105 => report_did'.published
            /\ (OnlyChangePercent(reporter.schedule) /\ reporter.last_published = 0) =>
                report_did'.published
            /\ NoThreshold(reporter.schedule) => report_did'.published]_vars
    /\ [][reporter'.last_published # reporter.last_published =>
            /\ report_did'.kind = "confirm"
            /\ publish_queue # <<>>
            /\ reporter'.last_published = Head(publish_queue)
            /\ publish_queue' = Tail(publish_queue)]_vars

\* C21 witness: with change_by 5, 105 was published over a last-published 100
\* and confirmed, and a later tick at 104 published nothing
C21_Witness ==
    /\ OnlyChangeBy(reporter.schedule)
    /\ reporter.last_published = 105
    /\ reporter.current = 104
    /\ report_did = Did("tick", TRUE, FALSE)
    /\ publish_queue = <<>>

\* the positions of the callbacks of that name in CALLBACKS
CallbacksNamed(name) == {k \in DOMAIN CALLBACKS : CALLBACKS[k].name = name}

\* the inverter went through connect and hass_discover_sensors without error
Started(i) == i \in connected /\ i \in discovered

\* run_callbacks was started
RunCallbacksStarted == pc \in {"run_callbacks", "finally", "finally_raising", "raised"}
                       \/ (pc = "done" /\ exit_code = {0})

\* C22: an inverter's ist.cb is in CALLBACKS only when that inverter's connect
\* and hass_discover_sensors both completed without error (discovery never
\* before connect); when run_callbacks is started every inverter of STATE has
\* its callback registered; discovery_info is registered before every inverter
\* callback and log_errors after all of them.
C22_StartupOrder ==
    /\ discovered \subseteq connected
    /\ \A k \in CallbacksNamed("ist.cb") : Started(CALLBACKS[k].index)
    /\ \A k \in CallbacksNamed("ist.cb") :
        /\ \E d \in CallbacksNamed("discovery_info") : d < k
        /\ \A e \in CallbacksNamed("log_errors") : k < e
    /\ RunCallbacksStarted =>
        /\ \A i \in DOMAIN STATE_agents :
            /\ Started(i)
            /\ \E k \in CallbacksNamed("ist.cb") : CALLBACKS[k].index = i
        /\ CALLBACKS[1].name = "discovery_info"
        /\ CALLBACKS[Len(CALLBACKS)].name = "log_errors"
        /\ Len(CALLBACKS) = Len(STATE_agents) + 2

\* C22 witness: run_callbacks is awaited with two inverters started
C22_Witness ==
    /\ pc = "run_callbacks"
    /\ Len(STATE_agents) = 2
    /\ connected = {1, 2}
    /\ discovered = {1, 2}
    /\ Len(CALLBACKS) = 4

\* the setting of the connection that an option field configures
SettingOf(field) == IF field = "read_allow_gap" THEN "allow_gap" ELSE field

\* C23 as stated: a read performed after a live update that changed timeout,
\* read_sensors_batch_size or read_allow_gap uses the new value of that field,
\* on the connection init_driver created before the update.
C23_LiveUpdateReachesReads ==
    read_with.done =>
        \A k \in DOMAIN read_with.after :
            read_with.after[k] \in {"timeout", "read_sensors_batch_size", "read_allow_gap"} =>
                read_with.used[SettingOf(read_with.after[k])]
                    = read_with.configured[SettingOf(read_with.after[k])]

\* the decode of the registers r that keeps the sign: the sensor without its
\* two flips
SignPreserving(s, r) ==
    Sensor_reg_to_value([s EXCEPT !.zero_export_absolute = FALSE, !.absolute = FALSE], r)

AbsoluteOf(v) == NumResult(Neg(Num(v.hi, v.lo, v.den)))

\* a decode of a negative value by a sensor with zero_export_absolute
NegativeDecoded ==
    /\ dep_call'.did = "reg_to_value"
    /\ sensor.zero_export_absolute
    /\ IsNeg(SignPreserving(sensor, regs'))

\* the load_limit seen is a number equal to 2
SawTwo(seen) ==
    \/ seen.t = "int" /\ seen.n = 2
    \/ seen.t = "float" /\ seen.n = 20

\* the load_limit seen is a number that int() turns into 2
SawIntTwo(seen) == is_number(seen) /\ int_of_number(seen) = 2

\* update_dependencies touches no decoded value, and changes nothing on a
\* sensor without zero_export_absolute
UpdateLeavesDecoded ==
    dep_call'.did = "update_dependencies" =>
        /\ result' = result
        /\ regs' = regs
        /\ ~sensor.zero_export_absolute => sensor' = sensor

\* C24 as stated: a negative value decoded by a sensor with
\* zero_export_absolute is returned as its absolute value exactly when the
\* last update_dependencies call saw a numeric load_limit equal to 2.
C24_FlipIffLoadLimitTwo ==
    /\ [][NegativeDecoded =>
            IF SawTwo(dep_call.seen)
            THEN result' = AbsoluteOf(SignPreserving(sensor, regs'))
            ELSE result' = SignPreserving(sensor, regs')]_vars
    /\ [][UpdateLeavesDecoded]_vars

\* C24 amended: for a sensor with zero_export_absolute and without absolute,
\* a negative decoded value is returned as its absolute value exactly when the
\* last update_dependencies call saw a load_limit that is a number (int,
\* float or bool) and that int() truncates to 2, and with its sign in every
\* other case (no call yet, load_limit missing, None or a string);
\* update_dependencies changes no value decoded earlier, and nothing at all on
\* a sensor without zero_export_absolute.
C24_FlipIffIntOfLoadLimitTwo ==
    /\ [][(NegativeDecoded /\ ~sensor.absolute) =>
            IF SawIntTwo(dep_call.seen)
            THEN result' = AbsoluteOf(SignPreserving(sensor, regs'))
            ELSE result' = SignPreserving(sensor, regs')]_vars
    /\ [][UpdateLeavesDecoded]_vars

\* C24 witness: after update_dependencies saw the load_limit 2.5, a sensor
\* with zero_export_absolute and without absolute decoded a negative value to
\* its absolute value
C24_Witness ==
    /\ dep_call = Deps(PyFloat(25), "reg_to_value")
    /\ sensor.zero_export_absolute
    /\ ~sensor.absolute
    /\ IsNeg(SignPreserving(sensor, regs))
    /\ result = AbsoluteOf(SignPreserving(sensor, regs))

\* the sensors that the list names individually: the name has no modifier, is
\* not deprecated and is the id of a known definition
NamedIndividually(names) ==
    {id \in AllSensors :
        \E k \in DOMAIN names :
            /\ ~HasColon(names[k])
            /\ slug(names[k]) = id
            /\ slug(names[k]) \notin DEFS_sensors.deprecated}

\* C25 as stated: after init_sensors every sensor that the sensors option
\* names individually and that resolves to a known, non-deprecated definition
\* has an entry in SOPT with visible = true, rated_power and serial included.
C25_NamedSensorsVisible ==
    SensorsDone =>
        \A s \in NamedIndividually(_options.sensors) :
            s \in DOMAIN SOPT /\ SOPT[s].visible

\* the same for the named sensors other than the two startup sensors
NamedOthersVisible ==
    SensorsDone =>
        \A s \in NamedIndividually(_options.sensors) \ {"rated_power", "serial"} :
            s \in DOMAIN SOPT /\ SOPT[s].visible

\* the exceptions of load_dict that are a ValueError
LoadValueErrors == {"ValueError: Expected list", "ValueError: Error loading config"}

\* every key of the dictionary was set on the options
EveryKeySet(value, opt) ==
    /\ value.connectors.present =>
        opt.connectors = [k \in DOMAIN value.connectors.items |->
                            AskedFields(value.connectors.items[k])]
    /\ value.debug.present => opt.debug = int(value.debug.v).n
    /\ ~value.unknown_key

\* the fields that have no key in the dictionary are as before
AbsentKeysKept(value, before, after) ==
    \A f \in DOMAIN before :
        (f \notin {"connectors", "debug"}
         \/ (f = "connectors" /\ ~value.connectors.present)
         \/ (f = "debug" /\ ~value.debug.present)) => after[f] = before[f]

\* C26 as stated: load_dict either sets every key of the dictionary on the
\* options and returns, or raises ValueError and leaves every field of the
\* options as it was; fields whose keys are absent are never changed.
C26_LoadDictAllOrNothing ==
    [][load_call'.op = "load_dict" =>
        /\ \/ load_raised' = "" /\ EveryKeySet(load_call'.value, _options')
           \/ load_raised' \in LoadValueErrors /\ _options' = _options
        /\ AbsentKeysKept(load_call'.value, _options, _options')]_vars

\* the handler named has just checked the path index of a request that came
\* in while no other request was suspended, and the index is an integer
IndexChecked(handler) ==
    /\ ~request.awaiting
    /\ request'.handler = handler
    /\ int_str(request'.index).err = ""

\* the index of the request just checked is outside 0..len-1
IndexOutside ==
    \/ int_str(request'.index).n < 0
    \/ int_str(request'.index).n >= Len(_options.inverters)

\* C27: starting with at least one inverter the inverter list is never empty;
\* a delete_inverter with a valid index on a single-inverter list answers 400
\* and removes nothing; a delete or update whose index is outside 0..len-1
\* when the handler checks it answers 404 and changes nothing.
C27_InverterListNeverEmpty ==
    /\ [](Len(_options.inverters) >= 1)
    /\ [][(IndexChecked("delete_inverter") /\ ~IndexOutside
           /\ Len(_options.inverters) = 1) =>
            /\ response'.status = 400
            /\ _options' = _options]_vars
    /\ [][((IndexChecked("delete_inverter") \/ IndexChecked("update_inverter"))
           /\ IndexOutside) =>
            /\ response'.status = 404
            /\ ~request'.awaiting
            /\ _options' = _options]_vars

\* C27 witness: the delete of the only inverter was refused with 400
C27_Witness ==
    /\ request.handler = "delete_inverter"
    /\ request.index = "0"
    /\ Len(_options.inverters) = 1
    /\ response.status = 400

\* the elements of a list
Listed(list) == {list[i] : i \in 1..Len(list)}

\* the live-updatable fields of a JSON object sent to /api/config/live
SentFields(data) == LiveFields \cap DOMAIN data.members

\* the sent fields whose value int() converts, and those it does not
Converting(data) == {f \in SentFields(data) : int(data.members[f]).err = ""}

Failing(data) == SentFields(data) \ Converting(data)

\* what the claim says of the request that sent the JSON object data
AppliedPerField(data) ==
    /\ \A f \in Converting(data) :
        /\ _options'[f] = int(data.members[f]).n
        /\ f \in Listed(response'.updated)
    /\ \A f \in Failing(data) :
        /\ _options'[f] = _options[f]
        /\ f \in Listed(response'.errors)
    /\ response'.status =
        IF Failing(data) # {} /\ Converting(data) = {} THEN 400 ELSE 200

\* C28: update_live_config applies each live-updatable field independently: a
\* field whose value converts to int is set and listed in 'updated' even when
\* another field of the request fails; a field that fails keeps its value and
\* is listed in 'errors'; the status is 400 exactly when at least one field
\* failed and none was updated, and 200 otherwise.
C28_FieldsAppliedIndependently ==
    [][(request'.handler = "update_live_config" /\ request'.data.kind = "object")
        => AppliedPerField(request'.data)]_vars

\* the same for the requests in which every failure is a ValueError or TypeError
AppliedPerFieldWhenCaught ==
    [][(/\ request'.handler = "update_live_config"
        /\ request'.data.kind = "object"
        /\ \A f \in Failing(request'.data) :
                int(request'.data.members[f]).err \in Caught)
        => AppliedPerField(request'.data)]_vars

\* C29: Sensor equality and hashing are consistent: two sensors that are equal
\* (same slug id) have the same hash, so a set never holds two equal sensors
\* and a membership test finds a sensor exactly when an equal one is in the set.
C29_EqualSensorsHashEqual ==
    /\ \A a \in affects : \A b \in affects :
            Sensor_eq(a, b) => Sensor_hash(a) = Sensor_hash(b)
    /\ probe.did =>
            (probe.found <=> \E e \in probe.set : Sensor_eq(e, probe.sen))

\* the handler of the last request answered on both options objects
Answered(handler) == request.handler = handler

\* C30: for two options states that differ only in the value of a non-empty
\* mqtt_password, the responses of /api/config and /api/config/export are the
\* same; /api/config shows '***' when a password is set and '' when not; the
\* export has no password field.
C30_PasswordNotDisclosed ==
    /\ ((Answered("get_config") \/ Answered("export_config"))
        /\ _options.mqtt_password # "" /\ twin.mqtt_password # "")
            => response = response_twin
    /\ Answered("get_config") =>
            response.body.mqtt.password =
                (IF _options.mqtt_password # "" THEN "***" ELSE "")
    /\ Answered("export_config") =>
            DOMAIN response.body \cap {"MQTT_PASSWORD", "password"} = {}

\* C30 witness: /api/config answered the same for two different passwords
C30_Witness ==
    /\ Answered("get_config")
    /\ _options.mqtt_password = "secret"
    /\ twin.mqtt_password = "hunter2"
    /\ response = response_twin
    /\ response.body.mqtt.password = "***"

\* the export answered the same for two different passwords
ExportedTheSame ==
    /\ Answered("export_config")
    /\ _options.mqtt_password = "secret"
    /\ twin.mqtt_password = "hunter2"
    /\ response = response_twin

====
